---- MODULE Spec2Model ----
(***************************************************************************)
(* Model of the Zebec wormhole bridge program (programs/solana-project/    *)
(* src/lib.rs): the inbound message intake (store_msg), the staged         *)
(* transaction store (create_* / execute_transaction), the combined        *)
(* create-and-execute variants and the direct transfers.                   *)
(*                                                                         *)
(* Every instruction handler is an operator that runs the handler's        *)
(* statements in order on working copies of the accounts it is given and   *)
(* returns the error it ends with together with those working copies.      *)
(* The action of the instruction persists the working copies only when     *)
(* the handler returned Ok (Commit): an instruction that returns Err       *)
(* leaves every account as it was before the call.                         *)
(***************************************************************************)
EXTENDS Integers, Sequences, FiniteSets, TLC

VARIABLES
    config,        \* Configuration: [owner, nonce]
    emitter_acc,   \* EmitterRegistration: [chain_id, emitter_addr]
    txn_count,     \* TransactionCounter.count
    data_storage,  \* StagedOperation
    transaction,   \* StagedTransaction records, by account
    txn_status,    \* ExecutionStatus.executed, by account
    staged,        \* history: what each StagedTransaction was checked against
    consumed,      \* history: the StagedOperation has authorised an invocation
    portal_message, \* the messages the portal has posted, in order
    last,          \* observation of the latest call: inputs and outcome
    calls,         \* number of calls made so far
    focus          \* the instruction whose inputs this behaviour varies

vars == <<config, emitter_acc, txn_count, data_storage, transaction,
          txn_status, staged, consumed, portal_message, last, calls, focus>>

-----------------------------------------------------------------------------
(* Bounds of the exploration *)

MaxCalls == 4

\* Calls of a behaviour whose focus is store_msg, which submits every message.
MaxIntake == 2

-----------------------------------------------------------------------------
(* Bytes and integers *)

Zeros(n) == [i \in 1..n |-> 0]

\* A 32-byte value whose last byte is x (identities, mints, data accounts).
Bytes32(x) == [i \in 1..32 |-> IF i = 32 THEN x ELSE 0]

RECURSIVE BigEndian(_, _)
\* n as w bytes, most significant first (write_u32/u16/u64::<BigEndian>).
BigEndian(n, w) ==
    IF w = 0 THEN <<>> ELSE Append(BigEndian(n \div 256, w - 1), n % 256)

RECURSIVE LittleEndian(_, _)
\* n as w bytes, least significant first (borsh integers).
LittleEndian(n, w) ==
    IF w = 0 THEN <<>> ELSE <<n % 256>> \o LittleEndian(n \div 256, w - 1)

RECURSIVE FromBigEndian(_)
FromBigEndian(bytes) ==
    IF bytes = <<>> THEN 0
    ELSE 256 * FromBigEndian(SubSeq(bytes, 1, Len(bytes) - 1)) + bytes[Len(bytes)]

RECURSIVE FromLittleEndian(_)
FromLittleEndian(bytes) ==
    IF bytes = <<>> THEN 0
    ELSE bytes[1] + 256 * FromLittleEndian(Tail(bytes))

\* u64::from_be_bytes of exactly 8 bytes.
get_u64(data_bytes) == FromBigEndian(data_bytes)

\* 7 zero bytes are put before the single byte, then u64::from_be_bytes.
get_u8(data_bytes) == FromBigEndian(Zeros(7) \o data_bytes)

\* U256::from_big_endian of exactly 32 bytes.
get_u256(data_bytes) == FromBigEndian(data_bytes)

\* Rust's x[a..b] on a vector: the bytes at 0-based positions a .. b-1.
Slice(v, a, b) == SubSeq(v, a + 1, b)

RECURSIVE Digits(_)
Digits(n) == IF n < 10 THEN <<48 + n>> ELSE Append(Digits(n \div 10), 48 + (n % 10))

\* (from_chain_id).to_string().as_bytes(): the decimal digits in ASCII.
ChainIdSeed(n) == Digits(n)

-----------------------------------------------------------------------------
(* Addresses *)

\* A public key given by its 32 bytes (Pubkey::new).
PubkeyNew(bytes) == [pda |-> FALSE, b |-> bytes]

\* Pubkey::find_program_address: the address is a hash over the seeds written
\* one after the other; the hash is collision free, so the address is
\* identified with the concatenated seeds.
RECURSIVE Concat(_)
Concat(seeds) == IF seeds = <<>> THEN <<>> ELSE Head(seeds) \o Concat(Tail(seeds))

find_program_address(seeds) == [pda |-> TRUE, b |-> Concat(seeds)]

DefaultPubkey == PubkeyNew(Zeros(32))

-----------------------------------------------------------------------------
(* Outcome of a call *)

\* A variant of Commit under which a failed instruction keeps its writes.
CommitAlways(err, new, old) == new

\* The accounts of a call are written back only when its handler returns Ok.
Commit(err, new, old) == IF err = "Ok" THEN new ELSE old

-----------------------------------------------------------------------------
(* Errors *)

Ok == "Ok"

\* A Rust panic (slice out of range, unwrap of None/Err): the instruction fails.
Panicked == "ProgramFailedToComplete"

\* try_from_slice(...)? on bytes that are not the borsh encoding of the type.
BorshError == "BorshIoError"

\* An Account<T> of the context that this program never wrote cannot be loaded.
NotInitialized == "AccountNotInitialized"

-----------------------------------------------------------------------------
(* The posted message (VAA) and its address *)

\* serialize_vaa: time, nonce, chain, emitter address, sequence, consistency
\* level and payload, integers big-endian.
serialize_vaa(vaa) ==
    BigEndian(vaa.vaa_time, 4) \o BigEndian(vaa.nonce, 4)
        \o BigEndian(vaa.emitter_chain, 2) \o vaa.emitter_address
        \o BigEndian(vaa.sequence, 8) \o <<vaa.consistency_level>> \o vaa.payload

\* Keccak256 of the serialization; collision free, so identified with its input.
Keccak256(bytes) == bytes

\* b"PostedVAA"
PostedVAA == <<80, 111, 115, 116, 101, 100, 86, 65, 65>>

\* The address the core bridge gives the message with this content.
VaaKey(vaa) == find_program_address(<<PostedVAA, Keccak256(serialize_vaa(vaa))>>)

\* The hexadecimal characters and their values.
HexDigits ==
    [c \in {"0", "1", "2", "3", "4", "5", "6", "7", "8", "9", "a", "b", "c", "d", "e", "f",
            "A", "B", "C", "D", "E", "F"} |->
       CASE c = "0" -> 0 [] c = "1" -> 1 [] c = "2" -> 2 [] c = "3" -> 3
         [] c = "4" -> 4 [] c = "5" -> 5 [] c = "6" -> 6 [] c = "7" -> 7
         [] c = "8" -> 8 [] c = "9" -> 9
         [] c \in {"a", "A"} -> 10 [] c \in {"b", "B"} -> 11
         [] c \in {"c", "C"} -> 12 [] c \in {"d", "D"} -> 13
         [] c \in {"e", "E"} -> 14 [] c \in {"f", "F"} -> 15]

\* Value of one hexadecimal character, -1 when it is none.
HexVal(c) == IF c \in DOMAIN HexDigits THEN HexDigits[c] ELSE -1

\* hex::decode succeeds on an even number of hexadecimal characters.
HexValid(str) ==
    /\ Len(str) % 2 = 0
    /\ \A i \in 1..Len(str) : HexVal(str[i]) >= 0

\* hex::decode: two characters per byte, high nibble first.
HexDecode(str) ==
    [i \in 1..(Len(str) \div 2) |-> 16 * HexVal(str[2 * i - 1]) + HexVal(str[2 * i])]

\* Required length of a registered emitter address string.
EVM_CHAIN_ADDRESS_LENGTH == 64

\* Largest value of TransactionCounter.count.
CountMax == 255

\* Configuration.nonce is a 32-bit unsigned integer, kept as its two 16-bit
\* halves; checked_add(1) is None (here <<>>) at the largest value.
U32(hi, lo) == [hi |-> hi, lo |-> lo]

\* A variant of U32CheckedAdd1 that wraps around at the largest value.
U32WrappingAdd1(n) ==
    IF n.lo < 65535 THEN <<U32(n.hi, n.lo + 1)>>
    ELSE IF n.hi < 65535 THEN <<U32(n.hi + 1, 0)>>
    ELSE <<U32(0, 0)>>

\* A variant of U32CheckedAdd1 that leaves the number as it is.
U32Kept(n) == <<n>>

U32CheckedAdd1(n) ==
    IF n.lo < 65535 THEN <<U32(n.hi, n.lo + 1)>>
    ELSE IF n.hi < 65535 THEN <<U32(n.hi + 1, 0)>>
    ELSE <<>>

\* A variant of CountCheckedAdd1 that leaves the counter as it is.
CountKept(n) == <<n>>

\* A variant of CountCheckedAdd1 that wraps around at the largest value.
CountWrappingAdd1(n) == <<(n + 1) % (CountMax + 1)>>

\* TransactionCounter.count.checked_add(1): None (here <<>>) at the largest value.
CountCheckedAdd1(n) == IF n < CountMax THEN <<n + 1>> ELSE <<>>

-----------------------------------------------------------------------------
(* store_msg: the handlers of the nine opcodes.  Each returns the error it    *)
(* ends with and its working copy of the StagedOperation.                     *)

HandlerResult(err, ds) == [err |-> err, ds |-> ds]

\* A variant of process_deposit that leaves from_chain_id as it was.
process_deposit_without_chain(encoded_str, from_chain_id, ds, sender) ==
    IF Len(encoded_str) < 105 THEN HandlerResult(Panicked, ds)
    ELSE LET amount == get_u64(Slice(encoded_str, 1, 9))
             senderbytes == Slice(encoded_str, 41, 73)
             token_mint_bytes == Slice(encoded_str, 73, 105)
             ds1 == [ds EXCEPT !.amount = amount,
                               !.sender = senderbytes,
                               !.token_mint = PubkeyNew(token_mint_bytes)]
         IN  HandlerResult(IF senderbytes = sender THEN Ok ELSE "InvalidSenderWallet", ds1)

process_deposit(encoded_str, from_chain_id, ds, sender) ==
    IF Len(encoded_str) < 105 THEN HandlerResult(Panicked, ds)
    ELSE LET amount == get_u64(Slice(encoded_str, 1, 9))
             senderbytes == Slice(encoded_str, 41, 73)
             token_mint_bytes == Slice(encoded_str, 73, 105)
             ds1 == [ds EXCEPT !.amount = amount,
                               !.sender = senderbytes,
                               !.from_chain_id = from_chain_id,
                               !.token_mint = PubkeyNew(token_mint_bytes)]
         IN  HandlerResult(IF senderbytes = sender THEN Ok ELSE "InvalidSenderWallet", ds1)

process_stream(encoded_str, from_chain_id, ds, sender) ==
    IF Len(encoded_str) < 169 THEN HandlerResult(Panicked, ds)
    ELSE LET start_time == get_u64(Slice(encoded_str, 1, 9))
             end_time == get_u64(Slice(encoded_str, 9, 17))
             amount == get_u64(Slice(encoded_str, 17, 25))
             senderwallet_bytes == Slice(encoded_str, 57, 89)
             receiver_wallet_bytes == Slice(encoded_str, 89, 121)
             can_update == get_u64(Slice(encoded_str, 121, 129))
             can_cancel == get_u64(Slice(encoded_str, 129, 137))
             token_mint_bytes == Slice(encoded_str, 137, 169)
             ds1 == [ds EXCEPT !.start_time = start_time,
                               !.end_time = end_time,
                               !.can_update = (can_update = 1),
                               !.can_cancel = (can_cancel = 1),
                               !.amount = amount,
                               !.sender = senderwallet_bytes,
                               !.receiver = receiver_wallet_bytes,
                               !.from_chain_id = from_chain_id,
                               !.token_mint = PubkeyNew(token_mint_bytes)]
         IN  HandlerResult(IF senderwallet_bytes = sender THEN Ok
                           ELSE "InvalidSenderWallet", ds1)

\* A variant of process_update_stream that reads the bytes a short payload
\* lacks as zeros.
process_update_stream_padded(encoded_str, from_chain_id, ds, sender) ==
    LET padded == IF Len(encoded_str) < 185
                  THEN encoded_str \o Zeros(185 - Len(encoded_str))
                  ELSE encoded_str
        start_time == get_u64(Slice(padded, 1, 9))
        end_time == get_u64(Slice(padded, 9, 17))
        amount == get_u64(Slice(padded, 17, 25))
        senderwallet_bytes == Slice(padded, 57, 89)
        receiver_wallet_bytes == Slice(padded, 89, 121)
        token_mint == Slice(padded, 121, 153)
        data_account == Slice(padded, 153, 185)
        ds1 == [ds EXCEPT !.start_time = start_time,
                          !.end_time = end_time,
                          !.amount = amount,
                          !.sender = senderwallet_bytes,
                          !.receiver = receiver_wallet_bytes,
                          !.from_chain_id = from_chain_id,
                          !.token_mint = PubkeyNew(token_mint),
                          !.data_account = PubkeyNew(data_account)]
    IN  HandlerResult(IF senderwallet_bytes = sender THEN Ok
                      ELSE "InvalidSenderWallet", ds1)

process_update_stream(encoded_str, from_chain_id, ds, sender) ==
    IF Len(encoded_str) < 185 THEN HandlerResult(Panicked, ds)
    ELSE LET start_time == get_u64(Slice(encoded_str, 1, 9))
             end_time == get_u64(Slice(encoded_str, 9, 17))
             amount == get_u64(Slice(encoded_str, 17, 25))
             senderwallet_bytes == Slice(encoded_str, 57, 89)
             receiver_wallet_bytes == Slice(encoded_str, 89, 121)
             token_mint == Slice(encoded_str, 121, 153)
             data_account == Slice(encoded_str, 153, 185)
             ds1 == [ds EXCEPT !.start_time = start_time,
                               !.end_time = end_time,
                               !.amount = amount,
                               !.sender = senderwallet_bytes,
                               !.receiver = receiver_wallet_bytes,
                               !.from_chain_id = from_chain_id,
                               !.token_mint = PubkeyNew(token_mint),
                               !.data_account = PubkeyNew(data_account)]
         IN  HandlerResult(IF senderwallet_bytes = sender THEN Ok
                           ELSE "InvalidSenderWallet", ds1)

\* A variant of process_pause that clears the amount and the times.
process_pause_resetting(encoded_str, from_chain_id, ds, sender) ==
    IF Len(encoded_str) < 161 THEN HandlerResult(Panicked, ds)
    ELSE LET depositor_wallet_bytes == Slice(encoded_str, 33, 65)
             token_mint == Slice(encoded_str, 65, 97)
             receiver_wallet_bytes == Slice(encoded_str, 97, 129)
             data_account == Slice(encoded_str, 129, 161)
             ds1 == [ds EXCEPT !.amount = 0, !.start_time = 0, !.end_time = 0,
                               !.sender = depositor_wallet_bytes,
                               !.receiver = receiver_wallet_bytes,
                               !.from_chain_id = from_chain_id,
                               !.token_mint = PubkeyNew(token_mint),
                               !.data_account = PubkeyNew(data_account)]
         IN  HandlerResult(IF depositor_wallet_bytes = sender THEN Ok
                           ELSE "InvalidSenderWallet", ds1)

process_pause(encoded_str, from_chain_id, ds, sender) ==
    IF Len(encoded_str) < 161 THEN HandlerResult(Panicked, ds)
    ELSE LET depositor_wallet_bytes == Slice(encoded_str, 33, 65)
             token_mint == Slice(encoded_str, 65, 97)
             receiver_wallet_bytes == Slice(encoded_str, 97, 129)
             data_account == Slice(encoded_str, 129, 161)
             ds1 == [ds EXCEPT !.sender = depositor_wallet_bytes,
                               !.receiver = receiver_wallet_bytes,
                               !.from_chain_id = from_chain_id,
                               !.token_mint = PubkeyNew(token_mint),
                               !.data_account = PubkeyNew(data_account)]
         IN  HandlerResult(IF depositor_wallet_bytes = sender THEN Ok
                           ELSE "InvalidSenderWallet", ds1)

\* A variant of process_withdraw_stream that compares the depositor with the
\* caller's identity.
process_withdraw_stream_by_depositor(encoded_str, from_chain_id, ds, receiver) ==
    IF Len(encoded_str) < 161 THEN HandlerResult(Panicked, ds)
    ELSE LET withdrawer_wallet_bytes == Slice(encoded_str, 33, 65)
             token_mint == Slice(encoded_str, 65, 97)
             depositor_wallet_bytes == Slice(encoded_str, 97, 129)
             data_account == Slice(encoded_str, 129, 161)
             ds1 == [ds EXCEPT !.sender = depositor_wallet_bytes,
                               !.receiver = withdrawer_wallet_bytes,
                               !.from_chain_id = from_chain_id,
                               !.token_mint = PubkeyNew(token_mint),
                               !.data_account = PubkeyNew(data_account)]
         IN  HandlerResult(IF depositor_wallet_bytes = receiver THEN Ok
                           ELSE "InvalidSenderWallet", ds1)

\* The caller is the receiver of the stream: the withdrawer.
process_withdraw_stream(encoded_str, from_chain_id, ds, receiver) ==
    IF Len(encoded_str) < 161 THEN HandlerResult(Panicked, ds)
    ELSE LET withdrawer_wallet_bytes == Slice(encoded_str, 33, 65)
             token_mint == Slice(encoded_str, 65, 97)
             depositor_wallet_bytes == Slice(encoded_str, 97, 129)
             data_account == Slice(encoded_str, 129, 161)
             ds1 == [ds EXCEPT !.sender = depositor_wallet_bytes,
                               !.receiver = withdrawer_wallet_bytes,
                               !.from_chain_id = from_chain_id,
                               !.token_mint = PubkeyNew(token_mint),
                               !.data_account = PubkeyNew(data_account)]
         IN  HandlerResult(IF withdrawer_wallet_bytes = receiver THEN Ok
                           ELSE "InvalidSenderWallet", ds1)

process_cancel_stream(encoded_str, from_chain_id, ds, sender) ==
    IF Len(encoded_str) < 161 THEN HandlerResult(Panicked, ds)
    ELSE LET depositor_wallet_bytes == Slice(encoded_str, 33, 65)
             token_mint == Slice(encoded_str, 65, 97)
             receiver_wallet_bytes == Slice(encoded_str, 97, 129)
             data_account == Slice(encoded_str, 129, 161)
             ds1 == [ds EXCEPT !.sender = depositor_wallet_bytes,
                               !.receiver = receiver_wallet_bytes,
                               !.from_chain_id = from_chain_id,
                               !.token_mint = PubkeyNew(token_mint),
                               !.data_account = PubkeyNew(data_account)]
         IN  HandlerResult(IF depositor_wallet_bytes = sender THEN Ok
                           ELSE "InvalidSenderWallet", ds1)

process_withdraw(encoded_str, from_chain_id, ds, sender) ==
    IF Len(encoded_str) < 105 THEN HandlerResult(Panicked, ds)
    ELSE LET amount == get_u64(Slice(encoded_str, 1, 9))
             withdrawer_wallet_bytes == Slice(encoded_str, 41, 73)
             token_mint == Slice(encoded_str, 73, 105)
             ds1 == [ds EXCEPT !.sender = withdrawer_wallet_bytes,
                               !.from_chain_id = from_chain_id,
                               !.token_mint = PubkeyNew(token_mint),
                               !.amount = amount]
         IN  HandlerResult(IF withdrawer_wallet_bytes = sender THEN Ok
                           ELSE "InvalidSenderWallet", ds1)

process_instant_transfer(encoded_str, from_chain_id, ds, sender) ==
    IF Len(encoded_str) < 137 THEN HandlerResult(Panicked, ds)
    ELSE LET amount == get_u64(Slice(encoded_str, 1, 9))
             senderwallet_bytes == Slice(encoded_str, 41, 73)
             token_mint == Slice(encoded_str, 73, 105)
             withdrawer_wallet_bytes == Slice(encoded_str, 105, 137)
             ds1 == [ds EXCEPT !.sender = senderwallet_bytes,
                               !.receiver = withdrawer_wallet_bytes,
                               !.from_chain_id = from_chain_id,
                               !.token_mint = PubkeyNew(token_mint),
                               !.amount = amount]
         IN  HandlerResult(IF senderwallet_bytes = sender THEN Ok
                           ELSE "InvalidSenderWallet", ds1)

\* A variant of process_direct_transfer that accepts a message for this chain
\* only.
process_direct_transfer_to_chain(encoded_str, from_chain_id, ds, sender) ==
    IF Len(encoded_str) < 137 THEN HandlerResult(Panicked, ds)
    ELSE IF Slice(encoded_str, 9, 41) # Bytes32(1) THEN HandlerResult("InvalidPayload", ds)
    ELSE LET amount == get_u64(Slice(encoded_str, 1, 9))
             senderwallet_bytes == Slice(encoded_str, 41, 73)
             token_mint == Slice(encoded_str, 73, 105)
             withdrawer_wallet_bytes == Slice(encoded_str, 105, 137)
             ds1 == [ds EXCEPT !.sender = senderwallet_bytes,
                               !.receiver = withdrawer_wallet_bytes,
                               !.from_chain_id = from_chain_id,
                               !.token_mint = PubkeyNew(token_mint),
                               !.amount = amount]
         IN  HandlerResult(IF senderwallet_bytes = sender THEN Ok
                           ELSE "InvalidSenderWallet", ds1)

process_direct_transfer(encoded_str, from_chain_id, ds, sender) ==
    IF Len(encoded_str) < 137 THEN HandlerResult(Panicked, ds)
    ELSE LET amount == get_u64(Slice(encoded_str, 1, 9))
             senderwallet_bytes == Slice(encoded_str, 41, 73)
             token_mint == Slice(encoded_str, 73, 105)
             withdrawer_wallet_bytes == Slice(encoded_str, 105, 137)
             ds1 == [ds EXCEPT !.sender = senderwallet_bytes,
                               !.receiver = withdrawer_wallet_bytes,
                               !.from_chain_id = from_chain_id,
                               !.token_mint = PubkeyNew(token_mint),
                               !.amount = amount]
         IN  HandlerResult(IF senderwallet_bytes = sender THEN Ok
                           ELSE "InvalidSenderWallet", ds1)

-----------------------------------------------------------------------------
(* store_msg *)

StoreResult(err, count, ds) == [err |-> err, count |-> count, ds |-> ds]

\* A variant of StoreDecoded that accepts an opcode it has no handler for.
StoreDecodedAnyOpcode(vaa, count, ds, sender) ==
    IF Len(vaa.payload) < 1
    THEN StoreResult(Panicked, count, ds)
    ELSE LET encoded_str == vaa.payload
             code == get_u8(Slice(encoded_str, 0, 1))
             sum == CountCheckedAdd1(count)
         IN  IF sum = <<>>
             THEN StoreResult("Overflow", count, ds)
             ELSE LET chain == vaa.emitter_chain
                      h == CASE code = 2 -> process_stream(encoded_str, chain, ds, sender)
                             [] code = 4 -> process_withdraw_stream(encoded_str, chain, ds, sender)
                             [] code = 6 -> process_deposit(encoded_str, chain, ds, sender)
                             [] code = 8 -> process_pause(encoded_str, chain, ds, sender)
                             [] code = 10 -> process_withdraw(encoded_str, chain, ds, sender)
                             [] code = 12 -> process_instant_transfer(encoded_str, chain, ds, sender)
                             [] code = 14 -> process_update_stream(encoded_str, chain, ds, sender)
                             [] code = 16 -> process_cancel_stream(encoded_str, chain, ds, sender)
                             [] code = 17 -> process_direct_transfer(encoded_str, chain, ds, sender)
                             [] OTHER -> HandlerResult(Ok, ds)
                  IN  StoreResult(h.err, sum[1], h.ds)

\* store_msg from the decoding of the payload on: the opcode, the counter and
\* the handler of the opcode.
StoreDecoded(vaa, count, ds, sender) ==
    IF Len(vaa.payload) < 1
    THEN StoreResult(Panicked, count, ds)
    ELSE LET encoded_str == vaa.payload
             code == get_u8(Slice(encoded_str, 0, 1))
             sum == CountCheckedAdd1(count)
         IN  IF sum = <<>>
             THEN StoreResult("Overflow", count, ds)
             ELSE LET chain == vaa.emitter_chain
                      h == CASE code = 2 -> process_stream(encoded_str, chain, ds, sender)
                             [] code = 4 -> process_withdraw_stream(encoded_str, chain, ds, sender)
                             [] code = 6 -> process_deposit(encoded_str, chain, ds, sender)
                             [] code = 8 -> process_pause(encoded_str, chain, ds, sender)
                             [] code = 10 -> process_withdraw(encoded_str, chain, ds, sender)
                             [] code = 12 -> process_instant_transfer(encoded_str, chain, ds, sender)
                             [] code = 14 -> process_update_stream(encoded_str, chain, ds, sender)
                             [] code = 16 -> process_cancel_stream(encoded_str, chain, ds, sender)
                             [] code = 17 -> process_direct_transfer(encoded_str, chain, ds, sender)
                             [] OTHER -> HandlerResult("InvalidPayload", ds)
                  IN  StoreResult(h.err, sum[1], h.ds)

\* A variant of store_msg that compares the emitter chain only.
store_msg_chain_only(vaa, core_bridge_vaa_key, emitter, count, ds, sender) ==
    IF core_bridge_vaa_key # VaaKey(vaa)
    THEN StoreResult("VAAKeyMismatch", count, ds)
    ELSE IF vaa.emitter_chain # emitter.chain_id
    THEN StoreResult("VAAEmitterMismatch", count, ds)
    ELSE StoreDecoded(vaa, count, ds, sender)

\* A variant of store_msg that compares the emitter before the account address.
store_msg_emitter_first(vaa, core_bridge_vaa_key, emitter, count, ds, sender) ==
    IF vaa.emitter_chain # emitter.chain_id
    THEN StoreResult("VAAEmitterMismatch", count, ds)
    ELSE IF ~HexValid(emitter.emitter_addr)
    THEN StoreResult(Panicked, count, ds)
    ELSE IF vaa.emitter_address # HexDecode(emitter.emitter_addr)
    THEN StoreResult("VAAEmitterMismatch", count, ds)
    ELSE IF core_bridge_vaa_key # VaaKey(vaa)
    THEN StoreResult("VAAKeyMismatch", count, ds)
    ELSE StoreDecoded(vaa, count, ds, sender)

\* vaa is the message held by the account core_bridge_vaa, whose address is
\* core_bridge_vaa_key; emitter is the EmitterRegistration account supplied.
store_msg(vaa, core_bridge_vaa_key, emitter, count, ds, sender) ==
    IF core_bridge_vaa_key # VaaKey(vaa)
    THEN StoreResult("VAAKeyMismatch", count, ds)
    ELSE IF vaa.emitter_chain # emitter.chain_id
    THEN StoreResult("VAAEmitterMismatch", count, ds)
    ELSE IF ~HexValid(emitter.emitter_addr)
    THEN StoreResult(Panicked, count, ds)
    ELSE IF vaa.emitter_address # HexDecode(emitter.emitter_addr)
    THEN StoreResult("VAAEmitterMismatch", count, ds)
    ELSE StoreDecoded(vaa, count, ds, sender)

-----------------------------------------------------------------------------
(* Staged transactions *)

TransactionAccount(pubkey, is_signer, is_writable) ==
    [pubkey |-> pubkey, is_signer |-> is_signer, is_writable |-> is_writable]

\* A StagedTransaction account this program has not written yet.
EmptyTransaction ==
    [initialized |-> FALSE, program_id |-> DefaultPubkey, accounts |-> <<>>,
     data |-> <<>>, did_execute |-> FALSE]

\* accs[i] of a Rust vector (0-based); HasAcc says the index is in range.
HasAcc(accs, i) == i < Len(accs)

Acc(accs, i) == accs[i + 1]

\* The address derived from an identity and the staged chain id.
DerivedKey(identity, ds) ==
    find_program_address(<<identity, ChainIdSeed(ds.from_chain_id)>>)

\* TokenAmount::try_from_slice: one u64.
DecodeTokenAmount(bytes) ==
    IF Len(bytes) # 8 THEN [ok |-> FALSE, amount |-> 0]
    ELSE [ok |-> TRUE, amount |-> FromLittleEndian(bytes)]

\* Stream::try_from_slice: start_time, end_time, amount, can_cancel, can_update.
DecodeStream(bytes) ==
    IF Len(bytes) # 26 \/ bytes[25] \notin {0, 1} \/ bytes[26] \notin {0, 1}
    THEN [ok |-> FALSE, start_time |-> 0, end_time |-> 0, amount |-> 0,
          can_cancel |-> FALSE, can_update |-> FALSE]
    ELSE [ok |-> TRUE,
          start_time |-> FromLittleEndian(SubSeq(bytes, 1, 8)),
          end_time |-> FromLittleEndian(SubSeq(bytes, 9, 16)),
          amount |-> FromLittleEndian(SubSeq(bytes, 17, 24)),
          can_cancel |-> (bytes[25] = 1),
          can_update |-> (bytes[26] = 1)]

\* StreamUpdate::try_from_slice: start_time, end_time, amount.
DecodeStreamUpdate(bytes) ==
    IF Len(bytes) # 24
    THEN [ok |-> FALSE, start_time |-> 0, end_time |-> 0, amount |-> 0]
    ELSE [ok |-> TRUE,
          start_time |-> FromLittleEndian(SubSeq(bytes, 1, 8)),
          end_time |-> FromLittleEndian(SubSeq(bytes, 9, 16)),
          amount |-> FromLittleEndian(SubSeq(bytes, 17, 24))]

\* &data[8..]: the instruction data after the 8-byte discriminator.
AfterDiscriminator(data) == SubSeq(data, 9, Len(data))

NoInstruction == [program_id |-> DefaultPubkey, accounts |-> <<>>, data |-> <<>>]

\* perform_cpi: the staged instruction, with every account that is the
\* pda_signer marked as signer, is invoked under the seeds (sender, chain_id,
\* bump).  The invoked program decides the outcome.
perform_cpi(chain_id, sender, tx, pda_signer, outcome) ==
    [ix |-> [program_id |-> tx.program_id,
             accounts |-> [i \in 1..Len(tx.accounts) |->
                             IF tx.accounts[i].pubkey = pda_signer
                             THEN [tx.accounts[i] EXCEPT !.is_signer = TRUE]
                             ELSE tx.accounts[i]],
             data |-> tx.data],
     seeds |-> <<sender, chain_id>>,
     is_ok |-> outcome]

\* What a create, combined or execute handler returns: the error, its working
\* copies of the StagedTransaction and of ExecutionStatus.executed, whether
\* the downstream invocation was made and with which instruction.
TxResult(err, tx, executed, invoked, ix) ==
    [err |-> err, tx |-> tx, executed |-> executed, invoked |-> invoked, ix |-> ix]

Failed(err, tx, executed) == TxResult(err, tx, executed, FALSE, NoInstruction)

\* A variant of BuildTransaction that leaves did_execute as it is.
BuildTransactionKeepingLatch(tx, pid, accs, data) ==
    [tx EXCEPT !.program_id = pid, !.accounts = accs, !.data = data]

\* "Build Transactions" of the create_* handlers.
BuildTransaction(tx, pid, accs, data) ==
    [tx EXCEPT !.program_id = pid, !.accounts = accs, !.did_execute = FALSE,
               !.data = data]

\* "Build Transactions" of the combined handlers: did_execute is not written.
BuildTransactionCE(tx, pid, accs, data) ==
    [tx EXCEPT !.program_id = pid, !.accounts = accs, !.data = data]

-----------------------------------------------------------------------------
(* The create_* handlers *)

\* A variant of create_transaction_stream without the comparison of the mint.
create_transaction_stream_any_mint(tx, executed, ds, pid, accs, data, sender) ==
    IF executed THEN Failed("TransactionAlreadyCreated", tx, executed)
    ELSE LET tx1 == BuildTransaction(tx, pid, accs, data)
             decode_data == DecodeStream(AfterDiscriminator(data))
             err ==
               IF ~HasAcc(accs, 9) THEN Panicked
               ELSE IF sender # ds.sender THEN "PdaSenderMismatch"
               ELSE IF Acc(accs, 5).pubkey # DerivedKey(sender, ds)
               THEN "SenderDerivedKeyMismatch"
               ELSE IF Acc(accs, 6).pubkey # DerivedKey(ds.receiver, ds)
               THEN "ReceiverDerivedKeyMismatch"
               ELSE IF Len(data) < 8 THEN Panicked
               ELSE IF ~decode_data.ok THEN BorshError
               ELSE IF decode_data.amount # ds.amount THEN "AmountMismatch"
               ELSE IF decode_data.start_time # ds.start_time THEN "StartTimeMismatch"
               ELSE IF decode_data.end_time # ds.end_time THEN "EndTimeMismatch"
               ELSE IF decode_data.can_cancel # ds.can_cancel THEN "CanCancelMismatch"
               ELSE IF decode_data.can_update # ds.can_update THEN "CanUpdateMismatch"
               ELSE Ok
         IN  Failed(err, tx1, executed)

\* A variant of create_transaction_stream that accepts the two derived
\* addresses at either position.
create_transaction_stream_unordered(tx, executed, ds, pid, accs, data, sender) ==
    IF executed THEN Failed("TransactionAlreadyCreated", tx, executed)
    ELSE LET tx1 == BuildTransaction(tx, pid, accs, data)
             decode_data == DecodeStream(AfterDiscriminator(data))
             err ==
               IF ~HasAcc(accs, 9) THEN Panicked
               ELSE IF Acc(accs, 9).pubkey # ds.token_mint THEN "MintKeyMismatch"
               ELSE IF sender # ds.sender THEN "PdaSenderMismatch"
               ELSE IF Acc(accs, 5).pubkey \notin {DerivedKey(sender, ds), DerivedKey(ds.receiver, ds)}
               THEN "SenderDerivedKeyMismatch"
               ELSE IF Acc(accs, 6).pubkey \notin {DerivedKey(sender, ds), DerivedKey(ds.receiver, ds)}
               THEN "ReceiverDerivedKeyMismatch"
               ELSE IF Len(data) < 8 THEN Panicked
               ELSE IF ~decode_data.ok THEN BorshError
               ELSE IF decode_data.amount # ds.amount THEN "AmountMismatch"
               ELSE IF decode_data.start_time # ds.start_time THEN "StartTimeMismatch"
               ELSE IF decode_data.end_time # ds.end_time THEN "EndTimeMismatch"
               ELSE IF decode_data.can_cancel # ds.can_cancel THEN "CanCancelMismatch"
               ELSE IF decode_data.can_update # ds.can_update THEN "CanUpdateMismatch"
               ELSE Ok
         IN  Failed(err, tx1, executed)

create_transaction_stream(tx, executed, ds, pid, accs, data, sender) ==
    IF executed THEN Failed("TransactionAlreadyCreated", tx, executed)
    ELSE LET tx1 == BuildTransaction(tx, pid, accs, data)
             decode_data == DecodeStream(AfterDiscriminator(data))
             err ==
               IF ~HasAcc(accs, 9) THEN Panicked
               ELSE IF Acc(accs, 9).pubkey # ds.token_mint THEN "MintKeyMismatch"
               ELSE IF sender # ds.sender THEN "PdaSenderMismatch"
               ELSE IF Acc(accs, 5).pubkey # DerivedKey(sender, ds)
               THEN "SenderDerivedKeyMismatch"
               ELSE IF Acc(accs, 6).pubkey # DerivedKey(ds.receiver, ds)
               THEN "ReceiverDerivedKeyMismatch"
               ELSE IF Len(data) < 8 THEN Panicked
               ELSE IF ~decode_data.ok THEN BorshError
               ELSE IF decode_data.amount # ds.amount THEN "AmountMismatch"
               ELSE IF decode_data.start_time # ds.start_time THEN "StartTimeMismatch"
               ELSE IF decode_data.end_time # ds.end_time THEN "EndTimeMismatch"
               ELSE IF decode_data.can_cancel # ds.can_cancel THEN "CanCancelMismatch"
               ELSE IF decode_data.can_update # ds.can_update THEN "CanUpdateMismatch"
               ELSE Ok
         IN  Failed(err, tx1, executed)

create_transaction_receiver_withdraw(tx, executed, ds, pid, accs, data, sender) ==
    IF executed THEN Failed("TransactionAlreadyCreated", tx, executed)
    ELSE LET tx1 == BuildTransaction(tx, pid, accs, data)
             err ==
               IF ~HasAcc(accs, 12) THEN Panicked
               ELSE IF Acc(accs, 12).pubkey # ds.token_mint THEN "MintKeyMismatch"
               ELSE IF Acc(accs, 6).pubkey # ds.data_account THEN "DataAccountMismatch"
               ELSE IF sender # ds.receiver THEN "PdaReceiverMismatch"
               ELSE IF Acc(accs, 2).pubkey # DerivedKey(ds.sender, ds)
               THEN "SenderDerivedKeyMismatch"
               ELSE IF Acc(accs, 1).pubkey # DerivedKey(ds.receiver, ds)
               THEN "ReceiverDerivedKeyMismatch"
               ELSE Ok
         IN  Failed(err, tx1, executed)

\* A variant of create_transaction_cancel that sets executed, as
\* execute_transaction does.
create_transaction_cancel_marking(tx, executed, ds, pid, accs, data, sender) ==
    IF executed THEN Failed("TransactionAlreadyCreated", tx, executed)
    ELSE LET tx1 == BuildTransaction(tx, pid, accs, data)
             err ==
               IF ~HasAcc(accs, 12) THEN Panicked
               ELSE IF Acc(accs, 12).pubkey # ds.token_mint THEN "MintKeyMismatch"
               ELSE IF Acc(accs, 6).pubkey # ds.data_account THEN "DataAccountMismatch"
               ELSE IF sender # ds.sender THEN "PdaSenderMismatch"
               ELSE IF Acc(accs, 2).pubkey # DerivedKey(sender, ds)
               THEN "SenderDerivedKeyMismatch"
               ELSE IF Acc(accs, 1).pubkey # DerivedKey(ds.receiver, ds)
               THEN "ReceiverDerivedKeyMismatch"
               ELSE Ok
         IN  Failed(err, tx1, TRUE)

create_transaction_cancel(tx, executed, ds, pid, accs, data, sender) ==
    IF executed THEN Failed("TransactionAlreadyCreated", tx, executed)
    ELSE LET tx1 == BuildTransaction(tx, pid, accs, data)
             err ==
               IF ~HasAcc(accs, 12) THEN Panicked
               ELSE IF Acc(accs, 12).pubkey # ds.token_mint THEN "MintKeyMismatch"
               ELSE IF Acc(accs, 6).pubkey # ds.data_account THEN "DataAccountMismatch"
               ELSE IF sender # ds.sender THEN "PdaSenderMismatch"
               ELSE IF Acc(accs, 2).pubkey # DerivedKey(sender, ds)
               THEN "SenderDerivedKeyMismatch"
               ELSE IF Acc(accs, 1).pubkey # DerivedKey(ds.receiver, ds)
               THEN "ReceiverDerivedKeyMismatch"
               ELSE Ok
         IN  Failed(err, tx1, executed)

\* A variant of create_transaction_sender_withdraw without the comparison of
\* the mint.
create_transaction_sender_withdraw_any_mint(tx, executed, ds, pid, accs, data, sender) ==
    IF executed THEN Failed("TransactionAlreadyCreated", tx, executed)
    ELSE LET tx1 == BuildTransaction(tx, pid, accs, data)
             decode_data == DecodeTokenAmount(AfterDiscriminator(data))
             err ==
               IF ~HasAcc(accs, 7) THEN Panicked
               ELSE IF sender # ds.sender THEN "PdaSenderMismatch"
               ELSE IF Acc(accs, 2).pubkey # DerivedKey(sender, ds)
               THEN "SenderDerivedKeyMismatch"
               ELSE IF Len(data) < 8 THEN Panicked
               ELSE IF ~decode_data.ok THEN BorshError
               ELSE IF decode_data.amount # ds.amount THEN "AmountMismatch"
               ELSE Ok
         IN  Failed(err, tx1, executed)

create_transaction_sender_withdraw(tx, executed, ds, pid, accs, data, sender) ==
    IF executed THEN Failed("TransactionAlreadyCreated", tx, executed)
    ELSE LET tx1 == BuildTransaction(tx, pid, accs, data)
             decode_data == DecodeTokenAmount(AfterDiscriminator(data))
             err ==
               IF ~HasAcc(accs, 7) THEN Panicked
               ELSE IF Acc(accs, 7).pubkey # ds.token_mint THEN "MintKeyMismatch"
               ELSE IF sender # ds.sender THEN "PdaSenderMismatch"
               ELSE IF Acc(accs, 2).pubkey # DerivedKey(sender, ds)
               THEN "SenderDerivedKeyMismatch"
               ELSE IF Len(data) < 8 THEN Panicked
               ELSE IF ~decode_data.ok THEN BorshError
               ELSE IF decode_data.amount # ds.amount THEN "AmountMismatch"
               ELSE Ok
         IN  Failed(err, tx1, executed)

\* A variant of create_transaction_instant_transfer that accepts one value of
\* the first byte of the data only.
create_transaction_instant_transfer_one_method(tx, executed, ds, pid, accs, data, sender) ==
    IF executed THEN Failed("TransactionAlreadyCreated", tx, executed)
    ELSE LET tx1 == BuildTransaction(tx, pid, accs, data)
             decode_data == DecodeTokenAmount(AfterDiscriminator(data))
             err ==
               IF ~HasAcc(accs, 8) THEN Panicked
               ELSE IF Acc(accs, 8).pubkey # ds.token_mint THEN "MintKeyMismatch"
               ELSE IF sender # ds.sender THEN "PdaSenderMismatch"
               ELSE IF Acc(accs, 2).pubkey # DerivedKey(sender, ds)
               THEN "SenderDerivedKeyMismatch"
               ELSE IF Acc(accs, 1).pubkey # DerivedKey(ds.receiver, ds)
               THEN "ReceiverDerivedKeyMismatch"
               ELSE IF Len(data) < 8 THEN Panicked
               ELSE IF data[1] # 1 THEN "InvalidPayload"
               ELSE IF ~decode_data.ok THEN BorshError
               ELSE IF decode_data.amount # ds.amount THEN "AmountMismatch"
               ELSE Ok
         IN  Failed(err, tx1, executed)

create_transaction_instant_transfer(tx, executed, ds, pid, accs, data, sender) ==
    IF executed THEN Failed("TransactionAlreadyCreated", tx, executed)
    ELSE LET tx1 == BuildTransaction(tx, pid, accs, data)
             decode_data == DecodeTokenAmount(AfterDiscriminator(data))
             err ==
               IF ~HasAcc(accs, 8) THEN Panicked
               ELSE IF Acc(accs, 8).pubkey # ds.token_mint THEN "MintKeyMismatch"
               ELSE IF sender # ds.sender THEN "PdaSenderMismatch"
               ELSE IF Acc(accs, 2).pubkey # DerivedKey(sender, ds)
               THEN "SenderDerivedKeyMismatch"
               ELSE IF Acc(accs, 1).pubkey # DerivedKey(ds.receiver, ds)
               THEN "ReceiverDerivedKeyMismatch"
               ELSE IF Len(data) < 8 THEN Panicked
               ELSE IF ~decode_data.ok THEN BorshError
               ELSE IF decode_data.amount # ds.amount THEN "AmountMismatch"
               ELSE Ok
         IN  Failed(err, tx1, executed)

-----------------------------------------------------------------------------
(* The combined create-and-execute handlers and execute_transaction *)

\* "Burn the transaction to ensure one time use", then invoke.
BurnAndInvoke(tx1, executed, chain_id, sender, pda_signer, outcome) ==
    LET tx2 == [tx1 EXCEPT !.did_execute = TRUE]
        cpi == perform_cpi(chain_id, sender, tx2, pda_signer, outcome)
    IN  TxResult(IF cpi.is_ok THEN Ok ELSE "InvalidCPI", tx2, executed, TRUE, cpi.ix)

\* A variant of transaction_deposit that marks the ExecutionStatus executed.
transaction_deposit_marking(tx, executed, ds, pid, accs, data, chain_id, sender, pda_signer, outcome) ==
    IF executed THEN Failed("TransactionAlreadyCreated", tx, executed)
    ELSE LET tx1 == BuildTransactionCE(tx, pid, accs, data)
             decode_data == DecodeTokenAmount(AfterDiscriminator(data))
             err ==
               IF ~HasAcc(accs, 6) THEN Panicked
               ELSE IF Acc(accs, 6).pubkey # ds.token_mint THEN "MintKeyMismatch"
               ELSE IF sender # ds.sender THEN "PdaSenderMismatch"
               ELSE IF Acc(accs, 1).pubkey # DerivedKey(sender, ds)
               THEN "SenderDerivedKeyMismatch"
               ELSE IF Len(data) < 8 THEN Panicked
               ELSE IF ~decode_data.ok THEN BorshError
               ELSE IF decode_data.amount # ds.amount THEN "AmountMismatch"
               ELSE Ok
         IN  IF err # Ok THEN Failed(err, tx1, executed)
             ELSE BurnAndInvoke(tx1, TRUE, chain_id, sender, pda_signer, outcome)

transaction_deposit(tx, executed, ds, pid, accs, data, chain_id, sender, pda_signer, outcome) ==
    IF executed THEN Failed("TransactionAlreadyCreated", tx, executed)
    ELSE LET tx1 == BuildTransactionCE(tx, pid, accs, data)
             decode_data == DecodeTokenAmount(AfterDiscriminator(data))
             err ==
               IF ~HasAcc(accs, 6) THEN Panicked
               ELSE IF Acc(accs, 6).pubkey # ds.token_mint THEN "MintKeyMismatch"
               ELSE IF sender # ds.sender THEN "PdaSenderMismatch"
               ELSE IF Acc(accs, 1).pubkey # DerivedKey(sender, ds)
               THEN "SenderDerivedKeyMismatch"
               ELSE IF Len(data) < 8 THEN Panicked
               ELSE IF ~decode_data.ok THEN BorshError
               ELSE IF decode_data.amount # ds.amount THEN "AmountMismatch"
               ELSE Ok
         IN  IF err # Ok THEN Failed(err, tx1, executed)
             ELSE BurnAndInvoke(tx1, executed, chain_id, sender, pda_signer, outcome)

\* A variant of transaction_stream_update without the comparison of end_time.
transaction_stream_update_any_end(tx, executed, ds, pid, accs, data, chain_id, sender, pda_signer, outcome) ==
    IF executed THEN Failed("TransactionAlreadyCreated", tx, executed)
    ELSE LET tx1 == BuildTransactionCE(tx, pid, accs, data)
             decode_data == DecodeStreamUpdate(AfterDiscriminator(data))
             err ==
               IF ~HasAcc(accs, 4) THEN Panicked
               ELSE IF Acc(accs, 4).pubkey # ds.token_mint THEN "MintKeyMismatch"
               ELSE IF Acc(accs, 0).pubkey # ds.data_account THEN "DataAccountMismatch"
               ELSE IF sender # ds.sender THEN "PdaSenderMismatch"
               ELSE IF Acc(accs, 2).pubkey # DerivedKey(sender, ds)
               THEN "SenderDerivedKeyMismatch"
               ELSE IF Acc(accs, 3).pubkey # DerivedKey(ds.receiver, ds)
               THEN "ReceiverDerivedKeyMismatch"
               ELSE IF Len(data) < 8 THEN Panicked
               ELSE IF ~decode_data.ok THEN BorshError
               ELSE IF decode_data.amount # ds.amount THEN "AmountMismatch"
               ELSE IF decode_data.start_time # ds.start_time THEN "StartTimeMismatch"
               ELSE Ok
         IN  IF err # Ok THEN Failed(err, tx1, executed)
             ELSE BurnAndInvoke(tx1, executed, chain_id, sender, pda_signer, outcome)

transaction_stream_update(tx, executed, ds, pid, accs, data, chain_id, sender, pda_signer, outcome) ==
    IF executed THEN Failed("TransactionAlreadyCreated", tx, executed)
    ELSE LET tx1 == BuildTransactionCE(tx, pid, accs, data)
             decode_data == DecodeStreamUpdate(AfterDiscriminator(data))
             err ==
               IF ~HasAcc(accs, 4) THEN Panicked
               ELSE IF Acc(accs, 4).pubkey # ds.token_mint THEN "MintKeyMismatch"
               ELSE IF Acc(accs, 0).pubkey # ds.data_account THEN "DataAccountMismatch"
               ELSE IF sender # ds.sender THEN "PdaSenderMismatch"
               ELSE IF Acc(accs, 2).pubkey # DerivedKey(sender, ds)
               THEN "SenderDerivedKeyMismatch"
               ELSE IF Acc(accs, 3).pubkey # DerivedKey(ds.receiver, ds)
               THEN "ReceiverDerivedKeyMismatch"
               ELSE IF Len(data) < 8 THEN Panicked
               ELSE IF ~decode_data.ok THEN BorshError
               ELSE IF decode_data.amount # ds.amount THEN "AmountMismatch"
               ELSE IF decode_data.start_time # ds.start_time THEN "StartTimeMismatch"
               ELSE IF decode_data.end_time # ds.end_time THEN "EndTimeMismatch"
               ELSE Ok
         IN  IF err # Ok THEN Failed(err, tx1, executed)
             ELSE BurnAndInvoke(tx1, executed, chain_id, sender, pda_signer, outcome)

\* A variant of transaction_pause_resume without the check of ExecutionStatus.
transaction_pause_resume_unguarded(tx, executed, ds, pid, accs, data, chain_id, sender, pda_signer, outcome) ==
    LET tx1 == BuildTransactionCE(tx, pid, accs, data)
        err ==
          IF ~HasAcc(accs, 2) THEN Panicked
          ELSE IF Acc(accs, 2).pubkey # ds.data_account THEN "DataAccountMismatch"
          ELSE IF sender # ds.sender THEN "PdaSenderMismatch"
          ELSE IF Acc(accs, 0).pubkey # DerivedKey(sender, ds)
          THEN "SenderDerivedKeyMismatch"
          ELSE IF Acc(accs, 1).pubkey # DerivedKey(ds.receiver, ds)
          THEN "ReceiverDerivedKeyMismatch"
          ELSE Ok
    IN  IF err # Ok THEN Failed(err, tx1, executed)
        ELSE BurnAndInvoke(tx1, executed, chain_id, sender, pda_signer, outcome)

transaction_pause_resume(tx, executed, ds, pid, accs, data, chain_id, sender, pda_signer, outcome) ==
    IF executed THEN Failed("TransactionAlreadyCreated", tx, executed)
    ELSE LET tx1 == BuildTransactionCE(tx, pid, accs, data)
             err ==
               IF ~HasAcc(accs, 2) THEN Panicked
               ELSE IF Acc(accs, 2).pubkey # ds.data_account THEN "DataAccountMismatch"
               ELSE IF sender # ds.sender THEN "PdaSenderMismatch"
               ELSE IF Acc(accs, 0).pubkey # DerivedKey(sender, ds)
               THEN "SenderDerivedKeyMismatch"
               ELSE IF Acc(accs, 1).pubkey # DerivedKey(ds.receiver, ds)
               THEN "ReceiverDerivedKeyMismatch"
               ELSE Ok
         IN  IF err # Ok THEN Failed(err, tx1, executed)
             ELSE BurnAndInvoke(tx1, executed, chain_id, sender, pda_signer, outcome)

\* A variant of execute_transaction that leaves the ExecutionStatus as it is.
execute_transaction_unmarking(tx, executed, eth_add, from_chain_id, pda_signer, outcome) ==
    IF executed THEN Failed("TransactionAlreadyExecuted", tx, executed)
    ELSE IF tx.did_execute THEN Failed("AlreadyExecuted", tx, executed)
    ELSE BurnAndInvoke(tx, executed, from_chain_id, eth_add, pda_signer, outcome)

\* A variant of execute_transaction without the check of did_execute.
execute_transaction_unlatched(tx, executed, eth_add, from_chain_id, pda_signer, outcome) ==
    IF executed THEN Failed("TransactionAlreadyExecuted", tx, executed)
    ELSE BurnAndInvoke(tx, TRUE, from_chain_id, eth_add, pda_signer, outcome)

execute_transaction(tx, executed, eth_add, from_chain_id, pda_signer, outcome) ==
    IF executed THEN Failed("TransactionAlreadyExecuted", tx, executed)
    ELSE IF tx.did_execute THEN Failed("AlreadyExecuted", tx, TRUE)
    ELSE BurnAndInvoke(tx, TRUE, from_chain_id, eth_add, pda_signer, outcome)

-----------------------------------------------------------------------------
(* Direct transfers *)

\* What a direct transfer returns: the error, the working copies of
\* ExecutionStatus.executed and Configuration.nonce, the amount delegated to
\* the portal's transfer authority (<<>> when none was) and the data of the
\* instruction sent to the portal (<<>> when none was).
TransferResult(err, executed, nonce, approved, sent) ==
    [err |-> err, executed |-> executed, nonce |-> nonce, approved |-> approved,
     sent |-> sent]

\* A variant of Transfer that delegates the fee together with the amount.
TransferApprovingMore(kind, cfg, ds, executed, zebec_eoa, fee, target_chain, receiver, approve_ok, portal_ok) ==
    LET amount == ds.amount
        ix == [instruction |-> kind, nonce |-> cfg.nonce, amount |-> amount,
               fee |-> fee, target_address |-> receiver,
               target_chain |-> target_chain]
        sum == U32CheckedAdd1(cfg.nonce)
    IN  IF cfg.owner # zebec_eoa
        THEN TransferResult("InvalidCaller", executed, cfg.nonce, <<>>, <<>>)
        ELSE IF ~approve_ok
        THEN TransferResult("TokenProgramError", executed, cfg.nonce, <<>>, <<>>)
        ELSE IF Len(receiver) # 32
        THEN TransferResult(Panicked, executed, cfg.nonce, <<amount + fee>>, <<>>)
        ELSE IF ~portal_ok
        THEN TransferResult("PortalError", executed, cfg.nonce, <<amount + fee>>, <<>>)
        ELSE IF sum = <<>>
        THEN TransferResult("Overflow", executed, cfg.nonce, <<amount + fee>>, <<ix>>)
        ELSE TransferResult(Ok, executed, sum[1], <<amount + fee>>, <<ix>>)

\* A variant of Transfer without the comparison of zebec_eoa with the owner.
TransferAnyCaller(kind, cfg, ds, executed, zebec_eoa, fee, target_chain, receiver, approve_ok, portal_ok) ==
    LET amount == ds.amount
        ix == [instruction |-> kind, nonce |-> cfg.nonce, amount |-> amount,
               fee |-> fee, target_address |-> receiver,
               target_chain |-> target_chain]
        sum == U32CheckedAdd1(cfg.nonce)
    IN  IF ~approve_ok
        THEN TransferResult("TokenProgramError", executed, cfg.nonce, <<>>, <<>>)
        ELSE IF Len(receiver) # 32
        THEN TransferResult(Panicked, executed, cfg.nonce, <<amount>>, <<>>)
        ELSE IF ~portal_ok
        THEN TransferResult("PortalError", executed, cfg.nonce, <<amount>>, <<>>)
        ELSE IF sum = <<>>
        THEN TransferResult("Overflow", executed, cfg.nonce, <<amount>>, <<ix>>)
        ELSE TransferResult(Ok, executed, sum[1], <<amount>>, <<ix>>)

\* transfer_native and transfer_wrapped differ in the portal instruction only.
\* approve_ok and portal_ok are the outcomes of the two invoked programs.
Transfer(kind, cfg, ds, executed, zebec_eoa, fee, target_chain, receiver, approve_ok, portal_ok) ==
    LET amount == ds.amount
        ix == [instruction |-> kind, nonce |-> cfg.nonce, amount |-> amount,
               fee |-> fee, target_address |-> receiver,
               target_chain |-> target_chain]
        sum == U32CheckedAdd1(cfg.nonce)
    IN  IF cfg.owner # zebec_eoa
        THEN TransferResult("InvalidCaller", executed, cfg.nonce, <<>>, <<>>)
        ELSE IF ~approve_ok
        THEN TransferResult("TokenProgramError", executed, cfg.nonce, <<>>, <<>>)
        ELSE IF Len(receiver) # 32
        THEN TransferResult(Panicked, executed, cfg.nonce, <<amount>>, <<>>)
        ELSE IF ~portal_ok
        THEN TransferResult("PortalError", executed, cfg.nonce, <<amount>>, <<>>)
        ELSE IF sum = <<>>
        THEN TransferResult("Overflow", executed, cfg.nonce, <<amount>>, <<ix>>)
        ELSE TransferResult(Ok, executed, sum[1], <<amount>>, <<ix>>)

transfer_native(cfg, ds, executed, zebec_eoa, fee, target_chain, receiver, approve_ok, portal_ok) ==
    Transfer("TransferNative", cfg, ds, executed, zebec_eoa, fee, target_chain,
             receiver, approve_ok, portal_ok)

transfer_wrapped(cfg, ds, executed, zebec_eoa, fee, target_chain, receiver, approve_ok, portal_ok) ==
    Transfer("TransferWrapped", cfg, ds, executed, zebec_eoa, fee, target_chain,
             receiver, approve_ok, portal_ok)

\* A variant of transaction_direct_transfer_native without the test of executed.
transaction_direct_transfer_native_ungated(cfg, ds, executed, mint, zebec_eoa, pda_signer, sender, target_chain, fee, approve_ok, portal_ok) ==
    IF ds.token_mint # mint
    THEN TransferResult("DataAccountMismatch", TRUE, cfg.nonce, <<>>, <<>>)
    ELSE IF sender # ds.sender
    THEN TransferResult("PdaSenderMismatch", TRUE, cfg.nonce, <<>>, <<>>)
    ELSE IF pda_signer # DerivedKey(sender, ds)
    THEN TransferResult("SenderDerivedKeyMismatch", TRUE, cfg.nonce, <<>>, <<>>)
    ELSE transfer_native(cfg, ds, TRUE, zebec_eoa, fee, target_chain, ds.receiver,
                         approve_ok, portal_ok)

transaction_direct_transfer_native(cfg, ds, executed, mint, zebec_eoa, pda_signer, sender, target_chain, fee, approve_ok, portal_ok) ==
    IF executed
    THEN TransferResult("TransactionAlreadyExecuted", executed, cfg.nonce, <<>>, <<>>)
    ELSE IF ds.token_mint # mint
    THEN TransferResult("DataAccountMismatch", TRUE, cfg.nonce, <<>>, <<>>)
    ELSE IF sender # ds.sender
    THEN TransferResult("PdaSenderMismatch", TRUE, cfg.nonce, <<>>, <<>>)
    ELSE IF pda_signer # DerivedKey(sender, ds)
    THEN TransferResult("SenderDerivedKeyMismatch", TRUE, cfg.nonce, <<>>, <<>>)
    ELSE transfer_native(cfg, ds, TRUE, zebec_eoa, fee, target_chain, ds.receiver,
                         approve_ok, portal_ok)

transaction_direct_transfer_wrapped(cfg, ds, executed, zebec_eoa, pda_signer, sender, target_chain, fee, approve_ok, portal_ok) ==
    IF executed
    THEN TransferResult("TransactionAlreadyExecuted", executed, cfg.nonce, <<>>, <<>>)
    ELSE IF sender # ds.sender
    THEN TransferResult("PdaSenderMismatch", TRUE, cfg.nonce, <<>>, <<>>)
    ELSE IF pda_signer # DerivedKey(sender, ds)
    THEN TransferResult("SenderDerivedKeyMismatch", TRUE, cfg.nonce, <<>>, <<>>)
    ELSE transfer_wrapped(cfg, ds, TRUE, zebec_eoa, fee, target_chain, ds.receiver,
                          approve_ok, portal_ok)

-----------------------------------------------------------------------------
(* register_chain *)

\* A variant of register_chain that takes an address of any length.
register_chain_any_length(emitter, chain_id, emitter_addr) ==
    [err |-> Ok, emitter |-> [chain_id |-> chain_id, emitter_addr |-> emitter_addr]]

register_chain(emitter, chain_id, emitter_addr) ==
    IF Len(emitter_addr) # EVM_CHAIN_ADDRESS_LENGTH
    THEN [err |-> "InvalidEmitterAddress", emitter |-> emitter]
    ELSE [err |-> Ok,
          emitter |-> [chain_id |-> chain_id, emitter_addr |-> emitter_addr]]

-----------------------------------------------------------------------------
(* Accounts of a call *)

\* The account pda_signer of a context is the address derived from the
\* identity and the chain-id bytes given as instruction arguments.
PdaSignerAccount(identity, chain_id) == find_program_address(<<identity, chain_id>>)

\* The StagedTransaction and ExecutionStatus accounts a caller can supply.
TxIds == {1, 2}

StatusIds == {1, 2}

-----------------------------------------------------------------------------
(* Inputs: identities, keys, messages *)

IdA == Bytes32(1)

IdB == Bytes32(2)

MintX == PubkeyNew(Bytes32(11))

MintY == PubkeyNew(Bytes32(12))

DataAccountP == PubkeyNew(Bytes32(21))

DataAccountQ == PubkeyNew(Bytes32(22))

Owner == PubkeyNew(Bytes32(31))

Stranger == PubkeyNew(Bytes32(32))

ProgramP == PubkeyNew(Bytes32(41))

ProgramQ == PubkeyNew(Bytes32(42))

OtherId(id) == IF id = IdA THEN IdB ELSE IdA

OtherMint(m) == IF m = MintX THEN MintY ELSE MintX

OtherDataAccount(d) == IF d = DataAccountP THEN DataAccountQ ELSE DataAccountP

\* The chain this program runs on, as the 32-byte to_chain_id of a payload.
ToChain == Bytes32(1)

\* Payload layouts, as the sender of a message writes them.
AmountPayload(code, amount, sender, mint) ==
    <<code>> \o BigEndian(amount, 8) \o ToChain \o sender \o mint.b

TransferPayload(code, amount, sender, mint, receiver) ==
    <<code>> \o BigEndian(amount, 8) \o ToChain \o sender \o mint.b \o receiver

StreamPayload(start, end, amount, sender, receiver, can_update, can_cancel, mint) ==
    <<2>> \o BigEndian(start, 8) \o BigEndian(end, 8) \o BigEndian(amount, 8)
        \o ToChain \o sender \o receiver \o BigEndian(can_update, 8)
        \o BigEndian(can_cancel, 8) \o mint.b

UpdatePayload(start, end, amount, sender, receiver, mint, data_account) ==
    <<14>> \o BigEndian(start, 8) \o BigEndian(end, 8) \o BigEndian(amount, 8)
        \o ToChain \o sender \o receiver \o mint.b \o data_account.b

\* Pause and cancel: depositor first; withdraw-stream: withdrawer first.
AccountPayload(code, first, mint, second, data_account) ==
    <<code>> \o ToChain \o first \o mint.b \o second \o data_account.b

\* Emitter addresses: the 32 bytes of a message and registered strings.
EmitterBytesA == [i \in 1..32 |-> 170]

EmitterBytesB == [i \in 1..32 |-> 187]

EmitterHexA == [i \in 1..64 |-> "a"]

EmitterHexUpperA == [i \in 1..64 |-> "A"]

EmitterHexB == [i \in 1..64 |-> "b"]

EmitterNotHex == [i \in 1..64 |-> "z"]

EmitterShort == [i \in 1..40 |-> "a"]

\* Where the 32 bytes of to_chain_id lie in the layout of an opcode: behind
\* the amount, behind the two times and the amount, or behind the opcode.
ToChainOffset(code) ==
    CASE code \in {6, 10, 12, 17} -> 9
      [] code \in {2, 14} -> 25
      [] code \in {4, 8, 16} -> 1

\* The payload with the bytes of to_chain_id replaced by c.
WithToChain(payload, c) ==
    LET off == ToChainOffset(payload[1])
    IN  SubSeq(payload, 1, off) \o c \o SubSeq(payload, off + 33, Len(payload))

\* Values of to_chain_id other than this chain's.
OtherChains == {Bytes32(4), [i \in 1..32 |-> 255]}

Vaa(chain, emitter, seq, payload) ==
    [vaa_time |-> 1000, nonce |-> 7, emitter_chain |-> chain,
     emitter_address |-> emitter, sequence |-> seq, consistency_level |-> 1,
     payload |-> payload]

\* The messages a caller can submit.
Msgs ==
    << Vaa(2, EmitterBytesA, 1, StreamPayload(10, 20, 1000, IdA, IdB, 1, 1, MintX)),
       Vaa(2, EmitterBytesA, 2, AccountPayload(4, IdB, MintX, IdA, DataAccountP)),
       Vaa(2, EmitterBytesA, 3, AmountPayload(6, 1000, IdA, MintX)),
       Vaa(2, EmitterBytesA, 4, AccountPayload(8, IdA, MintX, IdB, DataAccountP)),
       Vaa(2, EmitterBytesA, 5, AmountPayload(10, 1000, IdA, MintX)),
       Vaa(2, EmitterBytesA, 6, TransferPayload(12, 1000, IdA, MintX, IdB)),
       Vaa(2, EmitterBytesA, 7, UpdatePayload(10, 20, 1000, IdA, IdB, MintX, DataAccountP)),
       Vaa(2, EmitterBytesA, 8, AccountPayload(16, IdA, MintX, IdB, DataAccountP)),
       Vaa(2, EmitterBytesA, 9, TransferPayload(17, 1000, IdA, MintX, IdB)),
       Vaa(2, EmitterBytesA, 10, AmountPayload(6, 5, IdB, MintY)),
       Vaa(2, EmitterBytesA, 11, AmountPayload(3, 1000, IdA, MintX)),
       Vaa(2, [EmitterBytesA EXCEPT ![1] = 171], 12, AmountPayload(6, 1000, IdA, MintX)),
       Vaa(2, [EmitterBytesA EXCEPT ![32] = 171], 13, AmountPayload(6, 1000, IdA, MintX)),
       Vaa(10, EmitterBytesB, 14, AmountPayload(10, 1000, IdA, MintX)),
       Vaa(2, EmitterBytesA, 15, AmountPayload(2, 1000, IdA, MintX)),
       Vaa(2, EmitterBytesA, 16, <<>>),
       Vaa(2, EmitterBytesA, 17,
           SubSeq(UpdatePayload(10, 20, 1000, IdA, IdB, MintX, DataAccountP), 1, 184)),
       Vaa(2, EmitterBytesA, 18,
           SubSeq(AccountPayload(8, IdA, MintX, IdB, DataAccountP), 1, 160)),
       Vaa(2, EmitterBytesA, 19, SubSeq(TransferPayload(17, 1000, IdA, MintX, IdB), 1, 136)),
       Vaa(2, EmitterBytesA, 20, SubSeq(AmountPayload(6, 1000, IdA, MintX), 1, 104)),
       Vaa(2, EmitterBytesA, 21,
           WithToChain(TransferPayload(17, 1000, IdA, MintX, IdB), Bytes32(4))) >>

MsgIds == 1..Len(Msgs)

\* The addresses of the accounts the core bridge posted them in.
MsgKeys == [m \in MsgIds |-> VaaKey(Msgs[m])]

\* A behaviour varies the inputs of one instruction (its focus): that
\* instruction is called with every input enumerated for it, the others with
\* the inputs that fit the staged operation.
Focuses ==
    {"store_msg", "direct_transfer", "transaction_deposit",
     "transaction_stream_update", "transaction_pause_resume",
     "create_transaction_stream", "create_transaction_receiver_withdraw",
     "create_transaction_cancel", "create_transaction_sender_withdraw",
     "create_transaction_instant_transfer", "execute_transaction"}

\* The messages submitted in a behaviour.
FocusMsgs(f) ==
    CASE f = "store_msg" -> MsgIds
      [] f = "create_transaction_stream" -> {1, 10}
      [] f = "create_transaction_receiver_withdraw" -> {2, 10}
      [] f = "transaction_deposit" -> {3, 10}
      [] f = "transaction_pause_resume" -> {4, 10}
      [] f = "create_transaction_sender_withdraw" -> {5, 3}
      [] f = "create_transaction_instant_transfer" -> {6, 10}
      [] f = "transaction_stream_update" -> {7, 10}
      [] f = "create_transaction_cancel" -> {8, 10}
      [] f = "direct_transfer" -> {9, 10, 21}
      [] f = "execute_transaction" -> {1, 10}

\* The address of the message account supplied with message m: its own, or
\* that of another message.
KeyChoices(f, m) == IF f = "store_msg" THEN {m, (m % Len(Msgs)) + 1} ELSE {m}

RegisterInputs(f) ==
    IF f = "store_msg"
    THEN { <<2, EmitterHexA>>, <<2, EmitterHexUpperA>>, <<10, EmitterHexB>>,
           <<2, EmitterNotHex>>, <<2, EmitterShort>> }
    ELSE {}

-----------------------------------------------------------------------------
(* Inputs: the transaction body a caller submits *)

\* Where the invoked program expects the accounts the handlers inspect
\* (0-based positions in the account list; -1: not part of the layout).
Positions(op) ==
    CASE op = "transaction_deposit" ->
           [mint |-> 6, data_account |-> -1, sender |-> 1, receiver |-> -1]
      [] op = "create_transaction_stream" ->
           [mint |-> 9, data_account |-> -1, sender |-> 5, receiver |-> 6]
      [] op = "transaction_stream_update" ->
           [mint |-> 4, data_account |-> 0, sender |-> 2, receiver |-> 3]
      [] op = "transaction_pause_resume" ->
           [mint |-> -1, data_account |-> 2, sender |-> 0, receiver |-> 1]
      [] op = "create_transaction_receiver_withdraw" ->
           [mint |-> 12, data_account |-> 6, sender |-> 2, receiver |-> 1]
      [] op = "create_transaction_cancel" ->
           [mint |-> 12, data_account |-> 6, sender |-> 2, receiver |-> 1]
      [] op = "create_transaction_sender_withdraw" ->
           [mint |-> 7, data_account |-> -1, sender |-> 2, receiver |-> -1]
      [] op = "create_transaction_instant_transfer" ->
           [mint |-> 8, data_account |-> -1, sender |-> 2, receiver |-> 1]

\* The shape of the instruction arguments after the discriminator.
ArgsKind(op) ==
    CASE op \in {"transaction_deposit", "create_transaction_sender_withdraw",
                 "create_transaction_instant_transfer"} -> "TokenAmount"
      [] op = "create_transaction_stream" -> "Stream"
      [] op = "transaction_stream_update" -> "StreamUpdate"
      [] OTHER -> "None"

Discriminator == <<1, 2, 3, 4, 5, 6, 7, 8>>

Filler == PubkeyNew(Bytes32(99))

BoolByte(b) == IF b THEN 1 ELSE 0

\* The ways a submitted body departs from the one that fits the staged
\* operation: "none" fits it, "pid" fits it with another target program,
\* every other one is wrong in the place it names.
Faults(op) ==
    {"none", "pid", "sender", "sender_key"}
      \cup (IF Positions(op).mint >= 0 THEN {"mint"} ELSE {})
      \cup (IF Positions(op).data_account >= 0 THEN {"data_account"} ELSE {})
      \cup (IF Positions(op).receiver >= 0 THEN {"receiver_key"} ELSE {})
      \cup (IF ArgsKind(op) # "None" THEN {"amount"} ELSE {})
      \cup (IF ArgsKind(op) \in {"Stream", "StreamUpdate"} THEN {"start", "end"} ELSE {})
      \cup (IF ArgsKind(op) = "Stream" THEN {"can_cancel", "can_update"} ELSE {})

CallerInput(op, ds, fault) ==
    LET pos == Positions(op)
        sid == IF Len(ds.sender) = 32 THEN ds.sender ELSE IdA
        rid == IF Len(ds.receiver) = 32 THEN ds.receiver ELSE IdB
        me == IF op = "create_transaction_receiver_withdraw" THEN rid ELSE sid
        skey == DerivedKey(sid, ds)
        rkey == DerivedKey(ds.receiver, ds)
        key(i) ==
            IF i = pos.mint
            THEN (IF fault = "mint" THEN OtherMint(ds.token_mint) ELSE ds.token_mint)
            ELSE IF i = pos.data_account
            THEN (IF fault = "data_account" THEN OtherDataAccount(ds.data_account)
                  ELSE ds.data_account)
            ELSE IF i = pos.sender
            THEN (IF fault = "sender_key" THEN DerivedKey(OtherId(sid), ds) ELSE skey)
            ELSE IF i = pos.receiver
            THEN (IF fault = "receiver_key" THEN DerivedKey(OtherId(rid), ds) ELSE rkey)
            ELSE Filler
        amount == IF fault = "amount" THEN ds.amount + 1 ELSE ds.amount
        start == IF fault = "start" THEN ds.start_time + 1 ELSE ds.start_time
        end == IF fault = "end" THEN ds.end_time + 1 ELSE ds.end_time
        cc == IF fault = "can_cancel" THEN ~ds.can_cancel ELSE ds.can_cancel
        cu == IF fault = "can_update" THEN ~ds.can_update ELSE ds.can_update
        args ==
            CASE ArgsKind(op) = "TokenAmount" -> LittleEndian(amount, 8)
              [] ArgsKind(op) = "Stream" ->
                   LittleEndian(start, 8) \o LittleEndian(end, 8)
                     \o LittleEndian(amount, 8) \o <<BoolByte(cc), BoolByte(cu)>>
              [] ArgsKind(op) = "StreamUpdate" ->
                   LittleEndian(start, 8) \o LittleEndian(end, 8)
                     \o LittleEndian(amount, 8)
              [] OTHER -> <<>>
    IN  [pid |-> IF fault = "pid" THEN ProgramQ ELSE ProgramP,
         accs |-> [i \in 1..13 |-> TransactionAccount(key(i - 1), FALSE, TRUE)],
         data |-> Discriminator \o args,
         sender |-> IF fault = "sender" THEN OtherId(me) ELSE me,
         chain_id |-> ChainIdSeed(ds.from_chain_id)]

CallerInputs(f, op, ds) ==
    {CallerInput(op, ds, x) : x \in (IF f = op THEN Faults(op) ELSE {"none"})}

-----------------------------------------------------------------------------
(* State *)

\* A StagedOperation account before the first message is stored in it.
EmptyOperation ==
    [amount |-> 0, sender |-> <<>>, receiver |-> <<>>, from_chain_id |-> 0,
     token_mint |-> DefaultPubkey, start_time |-> 0, end_time |-> 0,
     can_update |-> FALSE, can_cancel |-> FALSE, data_account |-> DefaultPubkey]

\* A transaction body: the target program, the account keys and the data.
Body(pid, accs, data) ==
    [program_id |-> pid, keys |-> [i \in 1..Len(accs) |-> accs[i].pubkey],
     data |-> data]

\* History of a StagedTransaction: the create_* that staged it, the
\* StagedOperation it was checked against and the body it was given, and the
\* bodies given to the create_* calls on it that have failed since.
NotStaged ==
    [op |-> "none", ds |-> EmptyOperation, body |-> Body(DefaultPubkey, <<>>, <<>>),
     rejected |-> {}]

\* The accounts as a call finds them.
Accounts ==
    [config |-> config, emitter_acc |-> emitter_acc, txn_count |-> txn_count,
     data_storage |-> data_storage, transaction |-> transaction,
     txn_status |-> txn_status, staged |-> staged, consumed |-> consumed,
     portal_message |-> portal_message]

\* What is recorded of a call: the instruction, its result, the
\* StagedTransaction tx and ExecutionStatus st it was given, whether it invoked
\* the target program and with which instruction, its inputs, the approval and
\* the portal instruction of a direct transfer, the accounts before it, and
\* the call it came after.
Observation(op, err, t, s, invoked, ix, inp, approved, sent) ==
    [op |-> op, err |-> err, tx |-> t, st |-> s, invoked |-> invoked, ix |-> ix,
     inp |-> inp, approved |-> approved, sent |-> sent, pre |-> Accounts,
     after |-> [op |-> last.op, tx |-> last.tx, st |-> last.st, err |-> last.err,
                msg |-> IF last.op = "store_msg" THEN last.inp.msg ELSE 0]]

\* The counters right after deployment, and shortly before their largest values.
FreshCounters == <<0, U32(0, 1)>>

LateCounters == <<CountMax - 1, U32(65535, 65535)>>

Scenarios ==
    {<<f, FreshCounters>> : f \in Focuses}
      \cup {<<"store_msg", LateCounters>>, <<"direct_transfer", LateCounters>>}

\* The ExecutionStatus accounts a caller supplies: those already executed and
\* the first that is not (the ones not executed are all alike).
StatusChoices == {s \in StatusIds : s = 1 \/ txn_status[s - 1]}

\* The StagedTransaction accounts a caller supplies: those already written and
\* the first that is not (the ones never written are all alike).
TxChoices == {t \in TxIds : t = 1 \/ transaction[t - 1].initialized}

\* The focus whose behaviours go on after a create_* call that failed, with a
\* retry or an execute_transaction.
RetryFocus == "create_transaction_sender_withdraw"

\* The calls of a behaviour: a behaviour whose focus is execute_transaction has
\* one more than the others, for the call that follows a store_msg, a create_*
\* and an execute_transaction.
CallBound(f) ==
    IF f = "store_msg" THEN MaxIntake
    ELSE IF f = "execute_transaction" THEN MaxCalls
    ELSE MaxCalls - 1

\* Calls are followed up to the first one that fails: a failed call leaves
\* every account as it was, so what can follow it can follow the state before it.
\* Behaviours of the retry focus go on after one failed call of its create_*.
Continues ==
    \/ last.err = Ok
    \/ focus = RetryFocus /\ last.op = RetryFocus /\ last.after.err = Ok

Callable ==
    /\ calls < CallBound(focus)
    /\ Continues

\* A behaviour of the retry focus has one more call if it is an
\* execute_transaction.
ExecuteCallable ==
    /\ calls < (IF focus = RetryFocus THEN MaxCalls ELSE CallBound(focus))
    /\ Continues

\* After initialize (owner set, nonce 1) and the registration of chain 2.
Init ==
    /\ \E sc \in Scenarios :
         /\ focus = sc[1]
         /\ txn_count = sc[2][1]
         /\ config = [owner |-> Owner, nonce |-> sc[2][2]]
    /\ emitter_acc = [chain_id |-> 2, emitter_addr |-> EmitterHexA]
    /\ data_storage = EmptyOperation
    /\ transaction = [t \in TxIds |-> EmptyTransaction]
    /\ txn_status = [s \in StatusIds |-> FALSE]
    /\ staged = [t \in TxIds |-> NotStaged]
    /\ consumed = FALSE
    /\ portal_message = <<>>
    /\ last = [op |-> "initialize", err |-> Ok, tx |-> 0, st |-> 0, invoked |-> FALSE,
               ix |-> NoInstruction, inp |-> <<>>, approved |-> <<>>, sent |-> <<>>,
               pre |-> Accounts,
               after |-> [op |-> "none", tx |-> 0, st |-> 0, err |-> Ok, msg |-> 0]]
    /\ calls = 0

-----------------------------------------------------------------------------
(* Actions: one per instruction *)

RegisterChain ==
    /\ Callable
    /\ \E inp \in RegisterInputs(focus) :
      \E r \in {register_chain(emitter_acc, inp[1], inp[2])} :
          /\ focus' = focus
          /\ emitter_acc' = Commit(r.err, r.emitter, emitter_acc)
          /\ last' = Observation("register_chain", r.err, 0, 0, FALSE, NoInstruction,
                                 [chain_id |-> inp[1], emitter_addr |-> inp[2]],
                                 <<>>, <<>>)
          /\ calls' = calls + 1
          /\ UNCHANGED <<config, txn_count, data_storage, transaction, txn_status,
                         staged, consumed, portal_message>>

\* A variant of StoreMsg in which a stored message releases the latch of every
\* StagedTransaction.
StoreMsgReleasingLatch ==
    /\ Callable
    /\ \E m \in FocusMsgs(focus), sender \in {IdA, IdB} : \E k \in KeyChoices(focus, m) :
      \E r \in {store_msg(Msgs[m], MsgKeys[k], emitter_acc, txn_count,
                         data_storage, sender)} :
          /\ focus' = focus
          /\ txn_count' = Commit(r.err, r.count, txn_count)
          /\ data_storage' = Commit(r.err, r.ds, data_storage)
          /\ consumed' = Commit(r.err, FALSE, consumed)
          /\ last' = Observation("store_msg", r.err, 0, 0, FALSE, NoInstruction,
                                 [msg |-> m, key |-> k, sender |-> sender], <<>>, <<>>)
          /\ calls' = calls + 1
          /\ transaction' = Commit(r.err, [t \in TxIds |->
                                      [transaction[t] EXCEPT !.did_execute = FALSE]],
                                    transaction)
          /\ UNCHANGED <<config, emitter_acc, txn_status, staged, portal_message>>

StoreMsg ==
    /\ Callable
    /\ \E m \in FocusMsgs(focus), sender \in {IdA, IdB} : \E k \in KeyChoices(focus, m) :
      \E r \in {store_msg(Msgs[m], MsgKeys[k], emitter_acc, txn_count,
                         data_storage, sender)} :
          /\ focus' = focus
          /\ txn_count' = Commit(r.err, r.count, txn_count)
          /\ data_storage' = Commit(r.err, r.ds, data_storage)
          /\ consumed' = Commit(r.err, FALSE, consumed)
          /\ last' = Observation("store_msg", r.err, 0, 0, FALSE, NoInstruction,
                                 [msg |-> m, key |-> k, sender |-> sender], <<>>, <<>>)
          /\ calls' = calls + 1
          /\ UNCHANGED <<config, emitter_acc, transaction, txn_status, staged,
                         portal_message>>

\* The outcomes of the invoked program to consider, given the result r of the
\* call when the invoked program succeeds: both where r invokes it.
CpiOutcomes(r) == IF r.invoked THEN BOOLEAN ELSE {TRUE}

\* The effect of a create, combined or execute call with result r on the
\* StagedTransaction t and the ExecutionStatus s.
TxCall(op, t, s, inp, result, stages) ==
    \E r \in {result} :
    /\ focus' = focus
    /\ transaction' =
         Commit(r.err, [transaction EXCEPT ![t] = [r.tx EXCEPT !.initialized = TRUE]],
                transaction)
    /\ txn_status' = Commit(r.err, [txn_status EXCEPT ![s] = r.executed], txn_status)
    /\ staged' =
         IF stages
         THEN Commit(r.err,
                     [staged EXCEPT ![t] = [op |-> op, ds |-> data_storage,
                                            body |-> Body(inp.pid, inp.accs, inp.data),
                                            rejected |-> {}]],
                     [staged EXCEPT ![t].rejected =
                        @ \cup {Body(inp.pid, inp.accs, inp.data)}])
         ELSE staged
    /\ consumed' = (consumed \/ (r.err = Ok /\ r.invoked))
    /\ last' = Observation(op, r.err, t, s, r.invoked, r.ix, inp, <<>>, <<>>)
    /\ calls' = calls + 1
    /\ UNCHANGED <<config, emitter_acc, txn_count, data_storage, portal_message>>

CreateTransactionStream ==
    /\ Callable
    /\ \E inp \in CallerInputs(focus, "create_transaction_stream", data_storage) :
      \E t \in TxChoices, s \in StatusChoices :
        TxCall("create_transaction_stream", t, s, inp,
               create_transaction_stream(transaction[t], txn_status[s], data_storage,
                                         inp.pid, inp.accs, inp.data, inp.sender),
               TRUE)

CreateTransactionReceiverWithdraw ==
    /\ Callable
    /\ \E inp \in CallerInputs(focus, "create_transaction_receiver_withdraw", data_storage) :
      \E t \in TxChoices, s \in StatusChoices :
        TxCall("create_transaction_receiver_withdraw", t, s, inp,
               create_transaction_receiver_withdraw(transaction[t], txn_status[s],
                   data_storage, inp.pid, inp.accs, inp.data, inp.sender),
               TRUE)

CreateTransactionCancel ==
    /\ Callable
    /\ \E inp \in CallerInputs(focus, "create_transaction_cancel", data_storage) :
      \E t \in TxChoices, s \in StatusChoices :
        TxCall("create_transaction_cancel", t, s, inp,
               create_transaction_cancel(transaction[t], txn_status[s], data_storage,
                                         inp.pid, inp.accs, inp.data, inp.sender),
               TRUE)

CreateTransactionSenderWithdraw ==
    /\ Callable
    /\ \E inp \in CallerInputs(focus, "create_transaction_sender_withdraw", data_storage) :
      \E t \in TxChoices, s \in StatusChoices :
        TxCall("create_transaction_sender_withdraw", t, s, inp,
               create_transaction_sender_withdraw(transaction[t], txn_status[s],
                   data_storage, inp.pid, inp.accs, inp.data, inp.sender),
               TRUE)

CreateTransactionInstantTransfer ==
    /\ Callable
    /\ \E inp \in CallerInputs(focus, "create_transaction_instant_transfer", data_storage) :
      \E t \in TxChoices, s \in StatusChoices :
        TxCall("create_transaction_instant_transfer", t, s, inp,
               create_transaction_instant_transfer(transaction[t], txn_status[s],
                   data_storage, inp.pid, inp.accs, inp.data, inp.sender),
               TRUE)

TransactionDeposit ==
    /\ Callable
    /\ \E inp \in CallerInputs(focus, "transaction_deposit", data_storage) :
      \E t \in TxChoices, s \in StatusChoices :
       \E outcome \in CpiOutcomes(transaction_deposit(transaction[t], txn_status[s], data_storage,
                   inp.pid, inp.accs, inp.data, inp.chain_id, inp.sender,
                   PdaSignerAccount(inp.sender, inp.chain_id), TRUE)) :
        TxCall("transaction_deposit", t, s, inp,
               transaction_deposit(transaction[t], txn_status[s], data_storage,
                   inp.pid, inp.accs, inp.data, inp.chain_id, inp.sender,
                   PdaSignerAccount(inp.sender, inp.chain_id), outcome),
               TRUE)

TransactionStreamUpdate ==
    /\ Callable
    /\ \E inp \in CallerInputs(focus, "transaction_stream_update", data_storage) :
      \E t \in TxChoices, s \in StatusChoices :
       \E outcome \in CpiOutcomes(transaction_stream_update(transaction[t], txn_status[s], data_storage,
                   inp.pid, inp.accs, inp.data, inp.chain_id, inp.sender,
                   PdaSignerAccount(inp.sender, inp.chain_id), TRUE)) :
        TxCall("transaction_stream_update", t, s, inp,
               transaction_stream_update(transaction[t], txn_status[s], data_storage,
                   inp.pid, inp.accs, inp.data, inp.chain_id, inp.sender,
                   PdaSignerAccount(inp.sender, inp.chain_id), outcome),
               TRUE)

TransactionPauseResume ==
    /\ Callable
    /\ \E inp \in CallerInputs(focus, "transaction_pause_resume", data_storage) :
      \E t \in TxChoices, s \in StatusChoices :
       \E outcome \in CpiOutcomes(transaction_pause_resume(transaction[t], txn_status[s], data_storage,
                   inp.pid, inp.accs, inp.data, inp.chain_id, inp.sender,
                   PdaSignerAccount(inp.sender, inp.chain_id), TRUE)) :
        TxCall("transaction_pause_resume", t, s, inp,
               transaction_pause_resume(transaction[t], txn_status[s], data_storage,
                   inp.pid, inp.accs, inp.data, inp.chain_id, inp.sender,
                   PdaSignerAccount(inp.sender, inp.chain_id), outcome),
               TRUE)

\* The identity a create_* instruction compares its sender argument with.
StagedIdentity(op, ds) ==
    IF op = "create_transaction_receiver_withdraw" THEN ds.receiver ELSE ds.sender

\* The identities given as eth_add: the one the StagedTransaction was staged
\* for, or another.
SignerChoices(f, st) ==
    LET id == StagedIdentity(st.op, st.ds)
        sid == IF Len(id) = 32 THEN id ELSE IdA
    IN  IF f = "execute_transaction" THEN {sid, OtherId(sid)} ELSE {sid}

ExecuteTransaction ==
    /\ ExecuteCallable
    /\ \E t \in TxChoices, s \in StatusChoices : \E eth_add \in SignerChoices(focus, staged[t]) :
      LET inp == [eth_add |-> eth_add,
                  from_chain_id |-> ChainIdSeed(data_storage.from_chain_id)]
          r(outcome) ==
              IF ~transaction[t].initialized
              THEN Failed(NotInitialized, transaction[t], txn_status[s])
              ELSE execute_transaction(transaction[t], txn_status[s], inp.eth_add,
                       inp.from_chain_id,
                       PdaSignerAccount(inp.eth_add, inp.from_chain_id), outcome)
      IN  \E outcome \in CpiOutcomes(r(TRUE)) :
            TxCall("execute_transaction", t, s, inp, r(outcome), FALSE)

\* The ways the arguments of a direct transfer depart from the staged operation.
TransferFaults(f) ==
    IF f = "direct_transfer" THEN {"none", "mint", "sender", "signer", "caller"}
    ELSE {"none"}

\* Outcomes of the token program's approve and of the portal's instruction.
TransferOutcomes(f, r) ==
    IF f = "direct_transfer" /\ r.err = Ok
    THEN { <<TRUE, TRUE>>, <<FALSE, TRUE>>, <<TRUE, FALSE>> }
    ELSE { <<TRUE, TRUE>> }

TransferInput(ds, fault) ==
    LET sid == IF Len(ds.sender) = 32 THEN ds.sender ELSE IdA
        sender == IF fault = "sender" THEN OtherId(sid) ELSE sid
        chain_id == IF fault = "signer" THEN <<57>> ELSE ChainIdSeed(ds.from_chain_id)
    IN  [sender |-> sender,
         chain_id |-> chain_id,
         mint |-> IF fault = "mint" THEN OtherMint(ds.token_mint) ELSE ds.token_mint,
         zebec_eoa |-> IF fault = "caller" THEN Stranger ELSE Owner,
         target_chain |-> 4,
         fee |-> 1]

\* The effect of a direct transfer with result r on the ExecutionStatus s.
TransferCall(op, s, inp, result) ==
    \E r \in {result} :
    /\ focus' = focus
    /\ config' = Commit(r.err, [config EXCEPT !.nonce = r.nonce], config)
    /\ txn_status' = Commit(r.err, [txn_status EXCEPT ![s] = r.executed], txn_status)
    /\ consumed' = (consumed \/ r.err = Ok)
    /\ portal_message' = Commit(r.err, portal_message \o r.sent, portal_message)
    /\ last' = Observation(op, r.err, 0, s, FALSE, NoInstruction, inp, r.approved, r.sent)
    /\ calls' = calls + 1
    /\ UNCHANGED <<emitter_acc, txn_count, data_storage, transaction, staged>>

TransactionDirectTransferNative ==
    /\ Callable
    /\ \E s \in StatusChoices, f \in TransferFaults(focus) :
      LET inp == TransferInput(data_storage, f)
          r(approve_ok, portal_ok) ==
              transaction_direct_transfer_native(config, data_storage, txn_status[s],
                  inp.mint, inp.zebec_eoa, PdaSignerAccount(inp.sender, inp.chain_id),
                  inp.sender, inp.target_chain, inp.fee, approve_ok, portal_ok)
      IN  \E o \in TransferOutcomes(focus, r(TRUE, TRUE)) :
            TransferCall("transaction_direct_transfer_native", s, inp, r(o[1], o[2]))

TransactionDirectTransferWrapped ==
    /\ Callable
    /\ \E s \in StatusChoices, f \in TransferFaults(focus) :
      LET inp == TransferInput(data_storage, f)
          r(approve_ok, portal_ok) ==
              transaction_direct_transfer_wrapped(config, data_storage, txn_status[s],
                  inp.zebec_eoa, PdaSignerAccount(inp.sender, inp.chain_id),
                  inp.sender, inp.target_chain, inp.fee, approve_ok, portal_ok)
      IN  \E o \in TransferOutcomes(focus, r(TRUE, TRUE)) :
            TransferCall("transaction_direct_transfer_wrapped", s, inp, r(o[1], o[2]))

Next ==
    \/ RegisterChain
    \/ StoreMsg
    \/ CreateTransactionStream
    \/ CreateTransactionReceiverWithdraw
    \/ CreateTransactionCancel
    \/ CreateTransactionSenderWithdraw
    \/ CreateTransactionInstantTransfer
    \/ TransactionDeposit
    \/ TransactionStreamUpdate
    \/ TransactionPauseResume
    \/ ExecuteTransaction
    \/ TransactionDirectTransferNative
    \/ TransactionDirectTransferWrapped

Spec == Init /\ [][Next]_vars

-----------------------------------------------------------------------------
(* Properties *)

CreateOps ==
    {"create_transaction_stream", "create_transaction_receiver_withdraw",
     "create_transaction_cancel", "create_transaction_sender_withdraw",
     "create_transaction_instant_transfer"}

CombinedOps ==
    {"transaction_deposit", "transaction_stream_update", "transaction_pause_resume"}

TransferOps ==
    {"transaction_direct_transfer_native", "transaction_direct_transfer_wrapped"}

Execute == "execute_transaction"

\* The StagedTransaction and the ExecutionStatus of the latest call, as the
\* call found them and as it left them.
TxBefore == last.pre.transaction[last.tx]

TxAfter == transaction[last.tx]

StatusBefore == last.pre.txn_status[last.st]

StatusAfter == txn_status[last.st]

\* The latest call is an execute_transaction that follows a successful
\* execute_transaction on the same StagedTransaction.
SecondExecute ==
    /\ last.op = Execute
    /\ last.after.op = Execute
    /\ last.after.tx = last.tx

\* C1: an execute_transaction that follows a successful one on the same
\* StagedTransaction fails without invoking the target program: with
\* TransactionAlreadyExecuted when the ExecutionStatus it is given is
\* executed (as the one of the first call is), with AlreadyExecuted when
\* it is not.
C1_SecondExecuteFails ==
    SecondExecute =>
      /\ ~last.invoked
      /\ last.pre.transaction[last.tx].did_execute
      /\ last.st = last.after.st => last.pre.txn_status[last.st]
      /\ last.err = IF last.pre.txn_status[last.st]
                    THEN "TransactionAlreadyExecuted" ELSE "AlreadyExecuted"

C1_Witness ==
    /\ SecondExecute
    /\ last.st # last.after.st
    /\ last.err = "AlreadyExecuted"

\* C1 as the specification states it: the second execute_transaction fails
\* with AlreadyExecuted.
C1_Original ==
    SecondExecute => (last.err = "AlreadyExecuted" /\ ~last.invoked)

\* C2: did_execute and executed never go back from true to false, and every
\* attempt to execute a StagedTransaction whose did_execute is true, by
\* execute_transaction or by a combined instruction, fails (the specification
\* names the errors AlreadyExecuted, TransactionAlreadyCreated and
\* TransactionAlreadyExecuted).
C2_Monotone ==
    /\ \A t \in TxIds : last.pre.transaction[t].did_execute => transaction[t].did_execute
    /\ \A s \in StatusIds : last.pre.txn_status[s] => txn_status[s]
    /\ (last.op \in CombinedOps \cup {Execute} /\ TxBefore.did_execute)
         => last.err # Ok

\* C3: a call of execute_transaction or of a combined instruction that invokes
\* the target program and succeeds began with did_execute false.
C3_InvokedOnlyUnburnt ==
    (last.op \in CombinedOps \cup {Execute} /\ last.invoked /\ last.err = Ok)
      => ~TxBefore.did_execute

\* C4: once the staged operation has been invoked or transferred, no direct
\* transfer, and no combined call given a StagedTransaction never written
\* before, succeeds (invoking or transferring a second time) until store_msg
\* stages a new operation.
C4_ConsumedOnce ==
    (/\ last.pre.consumed
     /\ \/ last.op \in TransferOps
        \/ (last.op \in CombinedOps /\ ~TxBefore.initialized))
      => last.err # Ok

\* The StagedOperation as it was when the StagedTransaction of the latest call
\* was staged, and the instruction that staged it.
StagedFrom == last.pre.staged[last.tx]

\* Where the amount starts in the data of a body: after the discriminator, and
\* after start_time and end_time where the arguments have them.
AmountAt(op) == IF ArgsKind(op) = "TokenAmount" THEN 9 ELSE 25

\* The body b fits the StagedOperation ds in the places instruction op compares.
Fits(op, ds, b) ==
    LET pos == Positions(op)
    IN  /\ pos.mint >= 0 => Acc(b.accounts, pos.mint).pubkey = ds.token_mint
        /\ pos.data_account >= 0
             => Acc(b.accounts, pos.data_account).pubkey = ds.data_account
        /\ Acc(b.accounts, pos.sender).pubkey = DerivedKey(ds.sender, ds)
        /\ pos.receiver >= 0
             => Acc(b.accounts, pos.receiver).pubkey = DerivedKey(ds.receiver, ds)
        /\ ArgsKind(op) # "None"
             => FromLittleEndian(SubSeq(b.data, AmountAt(op), AmountAt(op) + 7)) = ds.amount

\* C5: execute_transaction compares nothing with the StagedOperation, and
\* eth_add with nothing: the body it invokes is the one the latest successful
\* create_* call stored, which fitted the StagedOperation as it was at that
\* call, whatever store_msg has written since.
C5_ExecutesWhatWasStaged ==
    (last.op = Execute /\ last.invoked) =>
      /\ StagedFrom.op \in CreateOps
      /\ last.ix.program_id = TxBefore.program_id
      /\ last.ix.data = TxBefore.data
      /\ Fits(StagedFrom.op, StagedFrom.ds, last.ix)

\* An execute_transaction that succeeds after store_msg has overwritten the
\* StagedOperation, given an eth_add that is not the identity staged.
C5_Witness ==
    /\ last.op = Execute
    /\ last.err = Ok
    /\ last.invoked
    /\ last.pre.data_storage # StagedFrom.ds
    /\ ~Fits(StagedFrom.op, last.pre.data_storage, last.ix)
    /\ last.inp.eth_add # StagedIdentity(StagedFrom.op, StagedFrom.ds)

\* C5 as the specification states it: what a successful execute_transaction
\* invokes fits the StagedOperation as it is at the call, and the call is
\* rejected once store_msg has overwritten the StagedOperation.
C5_Original ==
    /\ (last.op = Execute /\ last.invoked /\ last.err = Ok)
         => Fits(StagedFrom.op, last.pre.data_storage, last.ix)
    /\ (last.op = Execute /\ last.pre.data_storage # StagedFrom.ds) => last.err # Ok

\* The life cycle of a StagedTransaction record.
LifeCycle(tx) ==
    IF ~tx.initialized THEN "Empty"
    ELSE IF tx.did_execute THEN "Executed" ELSE "Staged"

\* C6: execute_transaction succeeds only on a Staged record, which it leaves
\* Executed; on an Empty or Executed record it fails without invoking the
\* target program.  A create_* call that succeeds leaves the record Staged; it
\* is not rejected for the record being Staged already.
C6_LifeCycle ==
    /\ (last.op = Execute /\ last.err = Ok)
         => (LifeCycle(TxBefore) = "Staged" /\ LifeCycle(TxAfter) = "Executed")
    /\ (last.op = Execute /\ LifeCycle(TxBefore) # "Staged")
         => (last.err # Ok /\ ~last.invoked /\ TxAfter = TxBefore)
    /\ (last.op \in CreateOps /\ last.err = Ok) => LifeCycle(TxAfter) = "Staged"

\* A second create_* that succeeds on a Staged record and replaces its body.
C6_Witness ==
    /\ last.op \in CreateOps
    /\ last.err = Ok
    /\ LifeCycle(TxBefore) = "Staged"
    /\ LifeCycle(TxAfter) = "Staged"
    /\ TxAfter # TxBefore

\* C6 as the specification states it: no second create_* succeeds on a Staged
\* record.
C6_Original ==
    (last.op \in CreateOps /\ LifeCycle(TxBefore) = "Staged") => last.err # Ok

C8_ExecutedStatusRejectsStaging ==
    (last.op \in CreateOps \cup CombinedOps /\ StatusBefore) =>
      /\ last.err = "TransactionAlreadyCreated"
      /\ ~last.invoked
      /\ transaction = last.pre.transaction

C8_Witness ==
    /\ last.op \in CombinedOps
    /\ StatusBefore
    /\ last.err = "TransactionAlreadyCreated"

\* The message and the address of the message account of the latest store_msg.
StoredVaa == Msgs[last.inp.msg]

KeyGiven == MsgKeys[last.inp.key]

Registered == last.pre.emitter_acc

EmitterMatches ==
    /\ StoredVaa.emitter_chain = Registered.chain_id
    /\ HexValid(Registered.emitter_addr)
    /\ StoredVaa.emitter_address = HexDecode(Registered.emitter_addr)

StagesNothing ==
    /\ data_storage = last.pre.data_storage
    /\ txn_count = last.pre.txn_count

\* C9: store_msg succeeds only if the emitter chain and address of the message
\* are the registered ones.  Given the message account's own address, a message
\* of another chain, or one whose address differs from the registered address
\* (the registered string being hexadecimal), fails with VAAEmitterMismatch and
\* stages nothing; a registered string that is not hexadecimal makes the call
\* of a message of the registered chain panic.
C9_EmitterMustMatch ==
    last.op = "store_msg" =>
      /\ last.err = Ok => EmitterMatches
      /\ (KeyGiven = VaaKey(StoredVaa) /\ ~EmitterMatches) =>
           /\ last.err = IF StoredVaa.emitter_chain = Registered.chain_id
                            /\ ~HexValid(Registered.emitter_addr)
                         THEN Panicked ELSE "VAAEmitterMismatch"
           /\ StagesNothing

\* A message whose emitter address differs from the registered one in one byte.
C9_Witness ==
    /\ last.op = "store_msg"
    /\ last.inp.msg \in {12, 13}
    /\ last.inp.key = last.inp.msg
    /\ Registered.emitter_addr = EmitterHexA
    /\ last.err = "VAAEmitterMismatch"

\* C10: a store_msg whose message account is not at the address derived from
\* the message fails with VAAKeyMismatch and changes nothing, whatever the
\* emitter, the counter and the payload are.
C10_KeyCheckedFirst ==
    (last.op = "store_msg" /\ KeyGiven # VaaKey(StoredVaa)) =>
      /\ last.err = "VAAKeyMismatch"
      /\ StagesNothing
      /\ emitter_acc = last.pre.emitter_acc

\* The address is wrong and so is the emitter, the opcode, or the counter full.
C10_Witness ==
    /\ last.op = "store_msg"
    /\ last.err = "VAAKeyMismatch"
    /\ \/ ~EmitterMatches
       \/ last.inp.msg = 11
       \/ last.pre.txn_count = CountMax

\* The latest call is a store_msg whose message account is at the address
\* derived from the message, whose emitter is the registered one and whose
\* payload has an opcode byte.
StoreReachesDecode ==
    /\ last.op = "store_msg"
    /\ KeyGiven = MsgKeys[last.inp.msg]
    /\ EmitterMatches
    /\ Len(StoredVaa.payload) >= 1

\* The opcode of the message of the latest store_msg.
Opcode == StoredVaa.payload[1]

Opcodes == {2, 4, 6, 8, 10, 12, 14, 16, 17}

\* C11: a successful store_msg adds exactly 1 to TransactionCounter.count; a
\* failed store_msg and every other instruction leave it as it was; it never
\* decreases.
C11_CounterSteps ==
    /\ (last.op = "store_msg" /\ last.err = Ok) => txn_count = last.pre.txn_count + 1
    /\ (last.op # "store_msg" \/ last.err # Ok) => txn_count = last.pre.txn_count
    /\ txn_count >= last.pre.txn_count

\* A successful store_msg that follows another one.
C11_Witness ==
    /\ last.op = "store_msg"
    /\ last.err = Ok
    /\ last.after.op = "store_msg"
    /\ txn_count = last.pre.txn_count + 1

\* C12: with TransactionCounter.count at its largest value no store_msg
\* succeeds; one that passes the address and emitter checks fails with
\* Overflow, whatever its opcode; the counter stays at its largest value and
\* the StagedOperation is unchanged.
C12_CounterOverflow ==
    (last.op = "store_msg" /\ last.pre.txn_count = CountMax) =>
      /\ last.err # Ok
      /\ StoreReachesDecode => last.err = "Overflow"
      /\ txn_count = CountMax
      /\ data_storage = last.pre.data_storage

C12_Witness ==
    /\ StoreReachesDecode
    /\ last.pre.txn_count = CountMax
    /\ last.err = "Overflow"
    /\ Opcode \in Opcodes

\* C13: a store_msg that passes the address and emitter checks, with the
\* counter below its largest value and an opcode that is none of the nine,
\* fails with InvalidPayload and leaves the StagedOperation and the counter as
\* they were.
C13_UnknownOpcode ==
    (StoreReachesDecode /\ Opcode \notin Opcodes /\ last.pre.txn_count < CountMax) =>
      /\ last.err = "InvalidPayload"
      /\ StagesNothing

C13_Witness ==
    /\ StoreReachesDecode
    /\ Opcode = 3
    /\ last.err = "InvalidPayload"
    /\ last.pre.txn_count > 0

\* The identity in the payload that the handler of its opcode compares with
\* the sender argument: the withdrawer for opcode 4, the sender (depositor)
\* for the others.
EmbeddedIdentity(payload) ==
    CASE payload[1] \in {6, 10, 12, 17} -> Slice(payload, 41, 73)
      [] payload[1] \in {2, 14} -> Slice(payload, 57, 89)
      [] payload[1] \in {4, 8, 16} -> Slice(payload, 33, 65)

\* The number of bytes the handler of an opcode reads.
LayoutLength(code) ==
    CASE code \in {6, 10} -> 105
      [] code \in {12, 17} -> 137
      [] code \in {4, 8, 16} -> 161
      [] code = 2 -> 169
      [] code = 14 -> 185

\* C14: a store_msg that reaches the handler of its opcode with a sender
\* argument that is not the identity embedded in the payload fails with
\* InvalidSenderWallet and leaves the StagedOperation and the counter as they
\* were before the call.
C14_SenderMustMatch ==
    (/\ StoreReachesDecode
     /\ Opcode \in Opcodes
     /\ Len(StoredVaa.payload) >= LayoutLength(Opcode)
     /\ last.pre.txn_count < CountMax
     /\ EmbeddedIdentity(StoredVaa.payload) # last.inp.sender)
      => (last.err = "InvalidSenderWallet" /\ StagesNothing)

\* A withdraw-stream message submitted by the depositor of the stream, after
\* another message was staged.
C14_Witness ==
    /\ StoreReachesDecode
    /\ Opcode = 4
    /\ last.inp.sender # EmbeddedIdentity(StoredVaa.payload)
    /\ last.inp.sender = Slice(StoredVaa.payload, 97, 129)
    /\ last.err = "InvalidSenderWallet"
    /\ last.after.op = "store_msg"
    /\ data_storage # EmptyOperation

\* A message of chain 2 whose payload has the deposit layout with amount 1000,
\* sender IdA and mint MintX behind the opcode byte, submitted with the sender
\* argument IdA.
DepositScenario(code) ==
    /\ StoreReachesDecode
    /\ last.pre.txn_count < CountMax
    /\ Registered.chain_id = 2
    /\ StoredVaa.emitter_chain = 2
    /\ StoredVaa.payload = AmountPayload(code, 1000, IdA, MintX)
    /\ last.inp.sender = IdA

\* The outcome the scenario expects: the four decoded fields staged, the
\* counter one higher.
DepositStaged ==
    /\ last.err = Ok
    /\ data_storage = [last.pre.data_storage EXCEPT !.amount = 1000,
                                                     !.sender = IdA,
                                                     !.from_chain_id = 2,
                                                     !.token_mint = MintX]
    /\ txn_count = last.pre.txn_count + 1

\* C15: with chain 2 registered, a store_msg of a chain-2 message whose payload
\* has opcode 6 and the deposit layout with amount 1000, sender IdA and mint
\* MintX stages amount 1000, sender IdA, from_chain_id 2 and token_mint MintX
\* and increments the counter by 1.
C15_DepositStaged == DepositScenario(6) => DepositStaged

\* The deposit message staged over an empty StagedOperation.
C15_Witness ==
    /\ DepositScenario(6)
    /\ last.pre.data_storage = EmptyOperation
    /\ data_storage.amount = 1000
    /\ data_storage.token_mint = MintX
    /\ txn_count = 1

\* The scenario as stated, with opcode 2 for the deposit layout.
C15_Original == DepositScenario(2) => DepositStaged

\* C16: store_msg, whatever the opcode and whether it succeeds or not, leaves
\* every StagedTransaction, every ExecutionStatus, the Configuration and the
\* EmitterRegistration as they were and invokes no other program: no target
\* program, no token approval, no portal instruction.
C16_StoreFrame ==
    last.op = "store_msg" =>
      /\ transaction = last.pre.transaction
      /\ txn_status = last.pre.txn_status
      /\ config = last.pre.config
      /\ emitter_acc = last.pre.emitter_acc
      /\ ~last.invoked
      /\ last.ix = NoInstruction
      /\ last.approved = <<>>
      /\ last.sent = <<>>

\* A message stored while a StagedTransaction with its latch set and an
\* executed ExecutionStatus exist.
C16_Witness ==
    /\ last.op = "store_msg"
    /\ last.err = Ok
    /\ data_storage # last.pre.data_storage
    /\ \E t \in TxIds : transaction[t].did_execute
    /\ \E st \in StatusIds : txn_status[st]

U32Less(a, b) == a.hi < b.hi \/ (a.hi = b.hi /\ a.lo < b.lo)

TransferSucceeded == last.op \in TransferOps /\ last.err = Ok

\* C17: a successful direct transfer, native or wrapped, sends one portal
\* instruction that carries the nonce the Configuration held before the call
\* and leaves the Configuration's nonce exactly one higher; no other call and
\* no failed call changes the nonce.  Every nonce sent is therefore below the
\* nonce kept for the next instruction.
C17_NonceSteps ==
    /\ TransferSucceeded =>
          /\ Len(last.sent) = 1
          /\ last.sent[1].nonce = last.pre.config.nonce
          /\ <<config.nonce>> = U32CheckedAdd1(last.pre.config.nonce)
          /\ U32Less(last.sent[1].nonce, config.nonce)
    /\ ~TransferSucceeded => config.nonce = last.pre.config.nonce
    /\ config.owner = last.pre.config.owner
    /\ \A i, j \in 1..Len(portal_message) :
          i < j => U32Less(portal_message[i].nonce, portal_message[j].nonce)
    /\ \A i \in 1..Len(portal_message) : U32Less(portal_message[i].nonce, config.nonce)

\* The second of two successive successful direct transfers, which carries
\* nonce 2 after the first carried nonce 1.
C17_Witness ==
    /\ TransferSucceeded
    /\ last.after.op \in TransferOps
    /\ last.sent[1].nonce = U32(0, 2)
    /\ config.nonce = U32(0, 3)
    /\ Len(portal_message) = 2
    /\ portal_message[1].nonce = U32(0, 1)

NonceMax == U32(65535, 65535)

\* C18: a direct transfer called while the Configuration's nonce has its
\* largest value fails, with Overflow where it gets as far as the portal
\* invocation; the nonce stays at its largest value and the portal's messages
\* are those there were before the call.
C18_NonceOverflow ==
    (last.op \in TransferOps /\ last.pre.config.nonce = NonceMax) =>
      /\ last.err # Ok
      /\ last.sent # <<>> => last.err = "Overflow"
      /\ config.nonce = NonceMax
      /\ portal_message = last.pre.portal_message

\* A transfer that invoked the portal with the largest nonce and then failed.
C18_Witness ==
    /\ last.op \in TransferOps
    /\ last.pre.config.nonce = NonceMax
    /\ last.err = "Overflow"
    /\ Len(last.sent) = 1
    /\ last.sent[1].nonce = NonceMax
    /\ portal_message = <<>>

\* C19: a successful direct transfer sets the executed flag of the
\* ExecutionStatus it was given, no call clears the flag, and a direct transfer
\* given an ExecutionStatus whose flag is set fails with
\* TransactionAlreadyExecuted before any approval or portal invocation.
C19_TransferGate ==
    /\ TransferSucceeded => txn_status[last.st]
    /\ \A s \in StatusIds : last.pre.txn_status[s] => txn_status[s]
    /\ (last.op \in TransferOps /\ StatusBefore) =>
          /\ last.err = "TransactionAlreadyExecuted"
          /\ last.approved = <<>>
          /\ last.sent = <<>>
          /\ portal_message = last.pre.portal_message
          /\ config = last.pre.config

\* A direct transfer on the ExecutionStatus of the direct transfer before it,
\* which posted a message.
C19_Witness ==
    /\ last.op \in TransferOps
    /\ last.after.op \in TransferOps
    /\ last.after.st = last.st
    /\ StatusBefore
    /\ Len(last.pre.portal_message) = 1
    /\ last.err = "TransactionAlreadyExecuted"

\* What a direct transfer was given that does not fit the StagedOperation.
TransferMintDiffers == last.inp.mint # last.pre.data_storage.token_mint

TransferSenderDiffers == last.inp.sender # last.pre.data_storage.sender

TransferSignerDiffers ==
    PdaSignerAccount(last.inp.sender, last.inp.chain_id)
      # DerivedKey(last.inp.sender, last.pre.data_storage)

\* C20: a direct transfer, native or wrapped, whose token mint is not the
\* StagedOperation's token_mint, whose sender is not the StagedOperation's
\* sender, or whose signer account is not the address derived from the sender
\* and the staged chain id fails without approving a delegation or invoking the
\* portal.
C20_ChecksBeforePortal ==
    (/\ last.op \in TransferOps
     /\ TransferMintDiffers \/ TransferSenderDiffers \/ TransferSignerDiffers)
      => (last.err # Ok /\ last.approved = <<>> /\ last.sent = <<>>)

\* C21: a successful direct transfer delegates exactly the StagedOperation's
\* amount and sends one portal instruction carrying that amount, the nonce the
\* Configuration held before the call, the StagedOperation's receiver as
\* target_address, and the caller's fee and target_chain; no direct transfer,
\* successful or not, approves any other amount.
C21_TransferCarriesStaged ==
    last.op \in TransferOps =>
      /\ \A i \in 1..Len(last.approved) : last.approved[i] = last.pre.data_storage.amount
      /\ Len(last.approved) <= 1
      /\ last.err = Ok =>
            /\ last.approved = <<last.pre.data_storage.amount>>
            /\ Len(last.sent) = 1
            /\ last.sent[1].amount = last.pre.data_storage.amount
            /\ last.sent[1].nonce = last.pre.config.nonce
            /\ last.sent[1].target_address = last.pre.data_storage.receiver
            /\ Len(last.sent[1].target_address) = 32
            /\ last.sent[1].fee = last.inp.fee
            /\ last.sent[1].target_chain = last.inp.target_chain
            /\ last.sent[1].instruction =
                 (IF last.op = "transaction_direct_transfer_native"
                  THEN "TransferNative" ELSE "TransferWrapped")

\* A successful wrapped transfer of the staged amount 1000 to the staged
\* receiver.
C21_Witness ==
    /\ last.op = "transaction_direct_transfer_wrapped"
    /\ last.err = Ok
    /\ last.approved = <<1000>>
    /\ last.sent[1].amount = 1000
    /\ last.sent[1].target_address = IdB
    /\ portal_message = <<last.sent[1]>>

\* A create_transaction_sender_withdraw that gets as far as the comparison of
\* the mint with an account list whose position 7 is not the staged mint.
SenderWithdrawWrongMint ==
    /\ last.op = "create_transaction_sender_withdraw"
    /\ ~StatusBefore
    /\ HasAcc(last.inp.accs, 7)
    /\ Acc(last.inp.accs, 7).pubkey # last.pre.data_storage.token_mint

\* The StagedTransaction of the latest call holds the body the call was given.
HoldsSupplied(tx) ==
    /\ tx.program_id = last.inp.pid
    /\ tx.accounts = last.inp.accs
    /\ tx.data = last.inp.data

\* C22: a create_transaction_sender_withdraw whose position-7 account is not
\* the StagedOperation's token_mint fails with MintKeyMismatch, and the
\* StagedTransaction, did_execute included, is what it was before the call:
\* nothing of the supplied body is kept.
C22_WrongMintKeepsNothing ==
    SenderWithdrawWrongMint =>
      /\ last.err = "MintKeyMismatch"
      /\ ~last.invoked
      /\ transaction = last.pre.transaction
      /\ txn_status = last.pre.txn_status
      /\ ~HoldsSupplied(TxBefore) => ~HoldsSupplied(TxAfter)

\* The call with the wrong mint made on a StagedTransaction that a successful
\* create wrote before; it still holds that earlier body.
C22_Witness ==
    /\ SenderWithdrawWrongMint
    /\ last.err = "MintKeyMismatch"
    /\ LifeCycle(TxBefore) = "Staged"
    /\ ~HoldsSupplied(TxAfter)
    /\ Acc(TxAfter.accounts, 7).pubkey = data_storage.token_mint

\* C22 as the specification states it: after the failed call the
\* StagedTransaction holds the supplied body, with did_execute false.
C22_Original ==
    SenderWithdrawWrongMint =>
      /\ last.err = "MintKeyMismatch"
      /\ HoldsSupplied(TxAfter)
      /\ ~TxAfter.did_execute

\* The calls that stage no transaction body for a later execute_transaction.
NonCreateOps == {"store_msg", Execute} \cup CombinedOps \cup TransferOps

StoredAlone ==
    store_msg(StoredVaa, KeyGiven, Registered, last.pre.txn_count, EmptyOperation,
              last.inp.sender).ds

\* C24: of two successful create_* calls on one StagedTransaction the record
\* holds the body of the later one, with did_execute false; of two successful
\* store_msg calls the StagedOperation is what the later one stages, with
\* nothing of the earlier message left in it.
C24_LastWriterWins ==
    /\ (last.op \in CreateOps /\ last.err = Ok)
         => (HoldsSupplied(TxAfter) /\ ~TxAfter.did_execute)
    /\ (last.op = "store_msg" /\ last.err = Ok /\ last.after.op = "store_msg")
         => data_storage = StoredAlone

\* C25: a create_* call that succeeds, after a failed attempt or not, leaves
\* the StagedTransaction with exactly the body it was given and did_execute
\* false; and an execute_transaction that invokes the target program invokes
\* the body of the latest successful create_* on the record, never one that a
\* failed create_* was given since.
C25_RetryOverwrites ==
    /\ (last.op \in CreateOps /\ last.err = Ok) =>
          TxAfter = [initialized |-> TRUE, program_id |-> last.inp.pid,
                     accounts |-> last.inp.accs, data |-> last.inp.data,
                     did_execute |-> FALSE]
    /\ (last.op \in CreateOps /\ last.err # Ok) => TxAfter = TxBefore
    /\ (last.op = Execute /\ last.invoked) =>
          Body(last.ix.program_id, last.ix.accounts, last.ix.data) = StagedFrom.body

\* The corrected retry: a successful create_* right after a failed one on the
\* same StagedTransaction, which was given another body.
C25_Witness ==
    /\ last.op = RetryFocus
    /\ last.err = Ok
    /\ last.after.op = last.op
    /\ last.after.tx = last.tx
    /\ last.after.err = "MintKeyMismatch"
    /\ StagedFrom.rejected # {}
    /\ Body(last.inp.pid, last.inp.accs, last.inp.data) \notin StagedFrom.rejected
    /\ ~TxAfter.did_execute

\* C26: a successful create_* leaves the StagedTransaction it was given with
\* the supplied program_id, accounts and data and did_execute false, invokes
\* nothing, and leaves every other StagedTransaction, every ExecutionStatus,
\* the StagedOperation, the TransactionCounter and the Configuration unchanged.
C26_CreateFrame ==
    (last.op \in CreateOps /\ last.err = Ok) =>
      /\ HoldsSupplied(TxAfter)
      /\ ~TxAfter.did_execute
      /\ \A t \in TxIds \ {last.tx} : transaction[t] = last.pre.transaction[t]
      /\ txn_status = last.pre.txn_status
      /\ data_storage = last.pre.data_storage
      /\ txn_count = last.pre.txn_count
      /\ config = last.pre.config
      /\ ~last.invoked

\* A create_transaction_cancel that stages a body in the second
\* StagedTransaction while the first holds another.
C26_Witness ==
    /\ last.op = "create_transaction_cancel"
    /\ last.err = Ok
    /\ last.tx = 2
    /\ HoldsSupplied(TxAfter)
    /\ transaction[1].initialized
    /\ ~StatusAfter
    /\ txn_count = 1

\* The account of the latest create_* or combined call at a position of its
\* layout.
KeyAt(p) == Acc(last.inp.accs, p).pubkey

\* The call was given the receiver-derived address where the sender-derived
\* one belongs, or the sender-derived address where the receiver-derived one
\* belongs.
SwapAtSender ==
    KeyAt(Positions(last.op).sender)
      = DerivedKey(last.pre.data_storage.receiver, last.pre.data_storage)

SwapAtReceiver ==
    /\ Positions(last.op).receiver >= 0
    /\ KeyAt(Positions(last.op).receiver)
         = DerivedKey(last.pre.data_storage.sender, last.pre.data_storage)

\* The call passes the checks its handler makes before the derived addresses:
\* the mint, the data account and the identity argument.
PassesEarlierChecks ==
    LET pos == Positions(last.op)
        ds == last.pre.data_storage
    IN  /\ ~StatusBefore
        /\ pos.mint >= 0 => KeyAt(pos.mint) = ds.token_mint
        /\ pos.data_account >= 0 => KeyAt(pos.data_account) = ds.data_account
        /\ last.inp.sender = StagedIdentity(last.op, ds)

\* C27: for a StagedOperation whose sender and receiver differ, a create_* or
\* combined call given the receiver-derived address at the sender position or
\* the sender-derived address at the receiver position fails and invokes
\* nothing; where it passes the checks made before, the error is
\* SenderDerivedKeyMismatch for the sender position and
\* ReceiverDerivedKeyMismatch for the receiver position alone.
C27_DerivedKeysOrdered ==
    (/\ last.op \in CreateOps \cup CombinedOps
     /\ last.pre.data_storage.sender # last.pre.data_storage.receiver
     /\ SwapAtSender \/ SwapAtReceiver)
      => /\ last.err # Ok
         /\ ~last.invoked
         /\ PassesEarlierChecks =>
               last.err = (IF SwapAtSender THEN "SenderDerivedKeyMismatch"
                           ELSE "ReceiverDerivedKeyMismatch")

\* A create_transaction_stream given the sender-derived address at the
\* receiver position.
C27_Witness ==
    /\ last.op = "create_transaction_stream"
    /\ Len(last.pre.data_storage.sender) = 32
    /\ Len(last.pre.data_storage.receiver) = 32
    /\ last.pre.data_storage.sender # last.pre.data_storage.receiver
    /\ SwapAtReceiver
    /\ ~SwapAtSender
    /\ last.err = "ReceiverDerivedKeyMismatch"

\* The instructions whose data carries numeric arguments.
NumericOps == {op \in CreateOps \cup CombinedOps : ArgsKind(op) # "None"}

\* The arguments in the data of the latest call, decoded in the shape of its
\* instruction.
DecodedArgs ==
    LET bytes == AfterDiscriminator(last.inp.data)
    IN  CASE ArgsKind(last.op) = "TokenAmount" -> DecodeTokenAmount(bytes)
          [] ArgsKind(last.op) = "Stream" -> DecodeStream(bytes)
          [] ArgsKind(last.op) = "StreamUpdate" -> DecodeStreamUpdate(bytes)

\* The error of the first argument that differs from the StagedOperation, in
\* the order the handlers compare them; Ok if none differs.
ArgsMismatch ==
    LET d == DecodedArgs
        ds == last.pre.data_storage
        timed == ArgsKind(last.op) \in {"Stream", "StreamUpdate"}
        flagged == ArgsKind(last.op) = "Stream"
    IN  IF d.amount # ds.amount THEN "AmountMismatch"
        ELSE IF timed /\ d.start_time # ds.start_time THEN "StartTimeMismatch"
        ELSE IF timed /\ d.end_time # ds.end_time THEN "EndTimeMismatch"
        ELSE IF flagged /\ d.can_cancel # ds.can_cancel THEN "CanCancelMismatch"
        ELSE IF flagged /\ d.can_update # ds.can_update THEN "CanUpdateMismatch"
        ELSE Ok

\* The derived addresses of the latest call are the staged ones.
DerivedKeysFit ==
    LET pos == Positions(last.op)
        ds == last.pre.data_storage
    IN  /\ KeyAt(pos.sender) = DerivedKey(ds.sender, ds)
        /\ pos.receiver >= 0 => KeyAt(pos.receiver) = DerivedKey(ds.receiver, ds)

\* C28: a create_* or combined call whose data decodes to an amount, a
\* start_time, an end_time, a can_cancel or a can_update that is not the
\* StagedOperation's fails and invokes nothing; where the call passes the
\* account and identity checks, the error is the one of the first field that
\* differs: AmountMismatch, StartTimeMismatch, EndTimeMismatch,
\* CanCancelMismatch or CanUpdateMismatch.
C28_FieldMismatch ==
    (/\ last.op \in NumericOps
     /\ Len(last.inp.data) >= 8
     /\ DecodedArgs.ok
     /\ ArgsMismatch # Ok)
      => /\ last.err # Ok
         /\ ~last.invoked
         /\ (PassesEarlierChecks /\ DerivedKeysFit) => last.err = ArgsMismatch

\* A transaction_stream_update whose data has another end_time than the one
\* staged.
C28_Witness ==
    /\ last.op = "transaction_stream_update"
    /\ DecodedArgs.ok
    /\ DecodedArgs.end_time = last.pre.data_storage.end_time + 1
    /\ last.pre.data_storage.end_time = 20
    /\ last.err = "EndTimeMismatch"
    /\ ~last.invoked

\* The payload of the latest store_msg is shorter than the layout of its
\* opcode, or empty.
PayloadShort ==
    \/ Len(StoredVaa.payload) = 0
    \/ /\ Opcode \in Opcodes
       /\ Len(StoredVaa.payload) < LayoutLength(Opcode)

\* C29: a store_msg whose payload is empty or shorter than the layout of its
\* opcode (105 bytes for deposit and withdraw, 137 for instant-transfer and
\* direct-transfer, 161 for pause, withdraw-stream and cancel, 169 for
\* stream-create, 185 for stream-update) fails, and leaves the StagedOperation
\* and the TransactionCounter as they were.
C29_ShortPayloadFails ==
    (last.op = "store_msg" /\ PayloadShort)
      => /\ last.err # Ok
         /\ StagesNothing

\* A stream-update payload one byte short that reaches its handler, after a
\* message was staged.
C29_Witness ==
    /\ StoreReachesDecode
    /\ Len(StoredVaa.payload) = 184
    /\ Opcode = 14
    /\ last.inp.sender = IdA
    /\ last.pre.txn_count = 1
    /\ last.err = Panicked
    /\ StagesNothing

\* C30: register_chain with an emitter address of another length than the
\* required one fails with InvalidEmitterAddress and leaves the
\* EmitterRegistration as it was; a successful register_chain leaves in it
\* exactly the chain_id and emitter_addr supplied; no other instruction changes
\* the EmitterRegistration.
C30_RegistrationFrame ==
    /\ (/\ last.op = "register_chain"
        /\ Len(last.inp.emitter_addr) # EVM_CHAIN_ADDRESS_LENGTH)
          => /\ last.err = "InvalidEmitterAddress"
             /\ emitter_acc = last.pre.emitter_acc
    /\ (last.op = "register_chain" /\ last.err = Ok)
          => emitter_acc = [chain_id |-> last.inp.chain_id,
                            emitter_addr |-> last.inp.emitter_addr]
    /\ last.op # "register_chain" => emitter_acc = last.pre.emitter_acc

\* An address of 40 characters is rejected where another chain and address
\* had been registered before.
C30_Witness ==
    /\ last.op = "register_chain"
    /\ Len(last.inp.emitter_addr) = 40
    /\ last.err = "InvalidEmitterAddress"
    /\ last.after.op = "register_chain"
    /\ emitter_acc = [chain_id |-> 10, emitter_addr |-> EmitterHexB]

\* What store_msg does from the decoding of the payload on, in the state
\* before the latest call and with its sender argument, with the message whose
\* to_chain_id is c in place of the one given (before the decoding, store_msg
\* compares the address of the message account and the emitter).
StoreOfToChain(c) ==
    LET vaa == [StoredVaa EXCEPT !.payload = WithToChain(@, c)]
    IN  StoreDecoded(vaa, last.pre.txn_count, last.pre.data_storage, last.inp.sender)

\* C31: the to_chain_id of a payload influences nothing.  A store_msg of a
\* message that differs from the one given in its to_chain_id only ends with
\* the same error and leaves the same StagedOperation and TransactionCounter,
\* so that every later call meets the same accounts; the target_chain of a
\* portal instruction is the argument of the direct transfer.
C31_ToChainIgnored ==
    /\ (/\ StoreReachesDecode
        /\ Opcode \in Opcodes
        /\ Len(StoredVaa.payload) >= LayoutLength(Opcode))
          => \A c \in OtherChains :
               LET r == StoreOfToChain(c)
               IN  /\ r.err = last.err
                   /\ Commit(last.err, r.ds, last.pre.data_storage) = data_storage
                   /\ Commit(last.err, r.count, last.pre.txn_count) = txn_count
    /\ (last.op \in TransferOps /\ last.sent # <<>>)
          => last.sent[1].target_chain = last.inp.target_chain

\* A direct-transfer message for chain 4 was stored over another operation.
C31_Witness ==
    /\ StoreReachesDecode
    /\ Opcode = 17
    /\ Slice(StoredVaa.payload, 9, 41) = Bytes32(4)
    /\ last.err = Ok
    /\ data_storage = StoreOfToChain(ToChain).ds
    /\ data_storage # last.pre.data_storage
    /\ last.pre.txn_count = 1

\* The opcode of the inbound message an operation acts on.
OpcodeOf(op) ==
    CASE op = "create_transaction_stream" -> 2
      [] op = "create_transaction_receiver_withdraw" -> 4
      [] op = "transaction_deposit" -> 6
      [] op = "transaction_pause_resume" -> 8
      [] op = "create_transaction_sender_withdraw" -> 10
      [] op = "create_transaction_instant_transfer" -> 12
      [] op = "transaction_stream_update" -> 14
      [] op = "create_transaction_cancel" -> 16
      [] op \in TransferOps -> 17

\* The latest call came right after a successful store_msg, whose message is
\* therefore the one that last wrote the StagedOperation.
WrittenJustBefore ==
    /\ last.after.op = "store_msg"
    /\ last.after.err = Ok

\* C32: a create_*, combined or direct-transfer call succeeds only if the
\* StagedOperation it reads was last written by a message of the opcode of
\* its kind.
C32_OpcodeMatches ==
    (/\ last.op \in CreateOps \cup CombinedOps \cup TransferOps
     /\ last.err = Ok
     /\ WrittenJustBefore)
      => Msgs[last.after.msg].payload[1] = OpcodeOf(last.op)

\* The fields of the StagedOperation.
OperationFields == DOMAIN EmptyOperation

\* The fields the handler of an opcode assigns: those of its layout, and
\* from_chain_id, taken from the envelope of the message.
Written(code) ==
    CASE code \in {6, 10} -> {"amount", "sender", "from_chain_id", "token_mint"}
      [] code \in {12, 17} ->
           {"amount", "sender", "receiver", "from_chain_id", "token_mint"}
      [] code \in {4, 8, 16} ->
           {"sender", "receiver", "from_chain_id", "token_mint", "data_account"}
      [] code = 2 ->
           {"start_time", "end_time", "can_update", "can_cancel", "amount", "sender",
            "receiver", "from_chain_id", "token_mint"}
      [] code = 14 ->
           {"start_time", "end_time", "amount", "sender", "receiver", "from_chain_id",
            "token_mint", "data_account"}

\* C33: a successful store_msg leaves every field of the StagedOperation that
\* the layout of its opcode lacks at the value an earlier message set: a
\* deposit or withdraw message leaves receiver, start_time, end_time,
\* can_update, can_cancel and data_account, a pause, cancel or
\* withdraw-stream message leaves amount, start_time and end_time.
C33_OtherFieldsKept ==
    (last.op = "store_msg" /\ last.err = Ok)
      => /\ \A f \in OperationFields \ Written(Opcode) :
              data_storage[f] = last.pre.data_storage[f]
         /\ Opcode \in {6, 10} =>
              {"receiver", "start_time", "end_time", "can_update", "can_cancel",
               "data_account"} \cap Written(Opcode) = {}
         /\ Opcode \in {4, 8, 16} =>
              {"amount", "start_time", "end_time"} \cap Written(Opcode) = {}

\* A pause message stored over the stream-create message keeps its amount and
\* times.
C33_Witness ==
    /\ last.op = "store_msg"
    /\ last.err = Ok
    /\ Opcode = 8
    /\ last.pre.data_storage.amount = 1000
    /\ last.pre.data_storage.start_time = 10
    /\ data_storage.amount = 1000
    /\ data_storage.start_time = 10
    /\ data_storage.end_time = 20
    /\ data_storage.data_account # last.pre.data_storage.data_account

\* The latest call is a create_* or combined call on the ExecutionStatus of a
\* successful combined call right before it.
AfterCombined ==
    /\ last.op \in CreateOps \cup CombinedOps
    /\ last.after.op \in CombinedOps
    /\ last.after.err = Ok
    /\ last.after.st = last.st

\* C34: a successful combined call leaves did_execute true and
\* ExecutionStatus.executed as it was, false; the create_* or combined call
\* that follows on the same ExecutionStatus finds executed false and is not
\* rejected with TransactionAlreadyCreated.
C34_CombinedKeepsStatus ==
    /\ (last.op \in CombinedOps /\ last.err = Ok)
          => /\ TxAfter.did_execute
             /\ ~StatusBefore
             /\ ~StatusAfter
             /\ txn_status = last.pre.txn_status
    /\ AfterCombined
          => /\ ~StatusBefore
             /\ last.err # "TransactionAlreadyCreated"

\* A second transaction_deposit succeeds on the ExecutionStatus of the first.
C34_Witness ==
    /\ AfterCombined
    /\ last.op = "transaction_deposit"
    /\ last.after.op = "transaction_deposit"
    /\ last.err = Ok
    /\ last.invoked
    /\ TxAfter.did_execute
    /\ ~StatusAfter

\* The latest call is on the ExecutionStatus of a successful
\* execute_transaction right before it.
AfterExecute ==
    /\ last.after.op = Execute
    /\ last.after.err = Ok
    /\ last.after.st = last.st

\* C35: a successful execute_transaction leaves ExecutionStatus.executed and
\* StagedTransaction.did_execute true; executed never becomes false again; on
\* an executed ExecutionStatus every create_* and combined call fails with
\* TransactionAlreadyCreated and leaves every StagedTransaction as it was,
\* and every execute_transaction (given a StagedTransaction that was written)
\* and every direct transfer fails with TransactionAlreadyExecuted.
C35_ExecutedIsFinal ==
    /\ (last.op = Execute /\ last.err = Ok)
          => (StatusAfter /\ TxAfter.did_execute)
    /\ \A s \in StatusIds : last.pre.txn_status[s] => txn_status[s]
    /\ (last.op # "store_msg" /\ last.op # "register_chain" /\ AfterExecute)
          => StatusBefore
    /\ (last.op \in CreateOps \cup CombinedOps /\ StatusBefore)
          => /\ last.err = "TransactionAlreadyCreated"
             /\ transaction = last.pre.transaction
    /\ (last.op = Execute /\ StatusBefore /\ TxBefore.initialized)
          => last.err = "TransactionAlreadyExecuted"
    /\ (last.op \in TransferOps /\ StatusBefore)
          => last.err = "TransactionAlreadyExecuted"

\* A create_* call on the ExecutionStatus of the execute_transaction before
\* it, rejected with the record still executed.
C35_Witness ==
    /\ AfterExecute
    /\ last.op \in CreateOps
    /\ last.err = "TransactionAlreadyCreated"
    /\ TxBefore.did_execute
    /\ TxAfter = TxBefore

\* The handler of a create_* or combined instruction, given the accounts, the
\* arguments inp and the outcome of the invoked program.
HandlerOf(op, tx, executed, ds, inp, outcome) ==
    LET pda_signer == PdaSignerAccount(inp.sender, inp.chain_id)
    IN  CASE op = "create_transaction_stream" ->
               create_transaction_stream(tx, executed, ds, inp.pid, inp.accs, inp.data,
                                         inp.sender)
          [] op = "create_transaction_receiver_withdraw" ->
               create_transaction_receiver_withdraw(tx, executed, ds, inp.pid, inp.accs,
                                                    inp.data, inp.sender)
          [] op = "create_transaction_cancel" ->
               create_transaction_cancel(tx, executed, ds, inp.pid, inp.accs, inp.data,
                                         inp.sender)
          [] op = "create_transaction_sender_withdraw" ->
               create_transaction_sender_withdraw(tx, executed, ds, inp.pid, inp.accs,
                                                  inp.data, inp.sender)
          [] op = "create_transaction_instant_transfer" ->
               create_transaction_instant_transfer(tx, executed, ds, inp.pid, inp.accs,
                                                   inp.data, inp.sender)
          [] op = "transaction_deposit" ->
               transaction_deposit(tx, executed, ds, inp.pid, inp.accs, inp.data,
                                   inp.chain_id, inp.sender, pda_signer, outcome)
          [] op = "transaction_stream_update" ->
               transaction_stream_update(tx, executed, ds, inp.pid, inp.accs, inp.data,
                                         inp.chain_id, inp.sender, pda_signer, outcome)
          [] op = "transaction_pause_resume" ->
               transaction_pause_resume(tx, executed, ds, inp.pid, inp.accs, inp.data,
                                        inp.chain_id, inp.sender, pda_signer, outcome)

\* The input that differs from inp at most in the program id, in the first 8
\* bytes of the data (other_data) and at the positions not inspected
\* (other_accs).
Varied(op, inp, pid, other_accs, other_data) ==
    [inp EXCEPT
       !.pid = pid,
       !.accs = IF other_accs
                THEN LET pos == Positions(op)
                     IN  [i \in 1..Len(inp.accs) |->
                            IF i - 1 \in {pos.mint, pos.data_account, pos.sender,
                                          pos.receiver}
                            THEN inp.accs[i]
                            ELSE TransactionAccount(Stranger, TRUE, FALSE)]
                ELSE inp.accs,
       !.data = IF other_data
                THEN <<9, 9, 9, 9, 9, 9, 9, 9>> \o AfterDiscriminator(inp.data)
                ELSE inp.data]

\* The variations considered: the program id alone changed, and all three
\* inputs changed.  Each is the program id and whether the positions not
\* inspected and the first 8 bytes of the data are changed.
Variations(inp) ==
    LET other == IF inp.pid = ProgramP THEN ProgramQ ELSE ProgramP
    IN  {<<other, FALSE, FALSE>>, <<other, TRUE, TRUE>>}

\* The result of the latest instruction, had it been called with the input v
\* and had the invoked program answered with outcome.
ResultWith(v, outcome) ==
    HandlerOf(last.op, TxBefore, StatusBefore, last.pre.data_storage, v, outcome)

\* C36: what a create_* or combined call verifies is independent of the
\* staged program_id, of the first 8 bytes of the data and of the positions of
\* the account list it does not inspect: a call that differs in the program
\* id, or in all of those inputs, only ends with the same error where the latest call ended
\* before an invocation, and reaches the invocation where the latest call
\* did; from there on the outcome is that of the invoked program (Ok, or
\* InvalidCPI where it fails).
C36_ChecksIgnoreBody ==
    (last.op \in CreateOps \cup CombinedOps)
      => \A x \in Variations(last.inp) :
           LET v == Varied(last.op, last.inp, x[1], x[2], x[3])
               r == ResultWith(v, TRUE)
           IN  /\ r.invoked = last.invoked
               /\ ~last.invoked => r.err = last.err
               /\ last.invoked =>
                    /\ r.err = Ok
                    /\ ResultWith(v, FALSE).err = "InvalidCPI"
                    /\ last.err \in {Ok, "InvalidCPI"}

\* A transaction_deposit with another program id than the usual one succeeds.
C36_Witness ==
    /\ last.op = "transaction_deposit"
    /\ last.inp.pid = ProgramQ
    /\ last.err = Ok
    /\ last.invoked
    /\ ResultWith([last.inp EXCEPT !.pid = ProgramP], TRUE).err = Ok

\* C36 as stated: a call that differs in those inputs only ends as the latest
\* call did, whatever the program it invokes answers.
C36_Original ==
    (last.op \in CreateOps \cup CombinedOps)
      => \A x \in Variations(last.inp) :
           LET v == Varied(last.op, last.inp, x[1], x[2], x[3])
           IN  \A outcome \in CpiOutcomes(ResultWith(v, TRUE)) :
                 ResultWith(v, outcome).err = last.err

\* The zebec_eoa account of the latest direct transfer is not the owner
\* recorded in the Configuration.
CallerDiffers == last.inp.zebec_eoa # last.pre.config.owner

\* The latest direct transfer passes the checks its handler makes before it
\* calls transfer_native or transfer_wrapped.
ReachesTransfer ==
    /\ ~StatusBefore
    /\ last.op = "transaction_direct_transfer_native" => ~TransferMintDiffers
    /\ ~TransferSenderDiffers
    /\ ~TransferSignerDiffers

\* C37: a direct transfer, native or wrapped, delegates tokens or invokes the
\* portal only if its zebec_eoa account is Configuration.owner; with another
\* account it fails, with InvalidCaller where the checks against the
\* StagedOperation pass, and delegates nothing, sends nothing to the portal
\* and leaves the nonce and the posted messages as they were.
C37_OwnerOnly ==
    last.op \in TransferOps =>
      /\ (last.approved # <<>> \/ last.sent # <<>>) => ~CallerDiffers
      /\ CallerDiffers =>
           /\ last.err # Ok
           /\ ReachesTransfer => last.err = "InvalidCaller"
           /\ last.approved = <<>>
           /\ last.sent = <<>>
           /\ config = last.pre.config
           /\ portal_message = last.pre.portal_message
           /\ txn_status = last.pre.txn_status

\* A wrapped direct transfer by another account than the owner, after a
\* transfer by the owner that posted a message.
C37_Witness ==
    /\ last.op = "transaction_direct_transfer_wrapped"
    /\ CallerDiffers
    /\ ReachesTransfer
    /\ last.err = "InvalidCaller"
    /\ last.pre.data_storage.amount = 1000
    /\ Len(portal_message) = 1

====
